---------------------------- MODULE Spec2Model ----------------------------
(***************************************************************************)
(* A model of gw-dd: the decoder of the Omni (RIFF-like) container, the    *)
(* lowering of decoded objects to text blocks, the ordered block           *)
(* collection of Text::from_omni, and the text preprocessor.               *)
(*                                                                         *)
(* Each part of the program has its own specification over the shared      *)
(* variables; the variables of the other parts stay at their idle values.  *)
(*   SpecLower   ToBlock of one object / of the header (mxob.rs, riff)     *)
(*   SpecText    Text::from_omni and Text::collect (text/mod.rs)           *)
(*   SpecHeader  the length map of RiffChunkHeader (riff/mod.rs)           *)
(*   SpecPre     Preprocessor::preprocess (text/preprocessor.rs)           *)
(*   SpecRead    Omni::parse, RiffChunk::read and read_chunks              *)
(***************************************************************************)
EXTENDS Integers, Sequences, FiniteSets, TLC

VARIABLES
    \* ---- lowering of one object (SpecLower)
    lw_in,        \* the chunk (or header) handed to to_block
    lw_top,       \* the top_level argument
    lw_out,       \* the result of to_block, <<>> before the call
    \* ---- Text::from_omni / Text::collect (SpecText)
    omni,         \* the decoded container: header, offsets, streams
    tpc,          \* position in from_omni: "start","lower","insert","built","rendered","panic"
    index,        \* the enumerate() index of the chunk being lowered
    pending,      \* the inserts of the current chunk still to be made
    settings,     \* Text.settings, <<>> before it is built
    blocks,       \* Text.blocks: the BTreeMap as its entries in key order
    inserted,     \* history: the ids handed to blocks.insert, in call order
    rendered,     \* the blocks written by Text::collect, in output order
    \* ---- RiffChunkHeader (SpecHeader)
    hd_raw,       \* the u32 length on disk, as two 16-bit limbs
    hd_checks,    \* whether the build checks arithmetic overflow (debug) or wraps
    hd_size,      \* RiffChunkHeader.size as read, <<>> before the read
    \* ---- Preprocessor::preprocess (SpecPre): its locals, and self.definitions
    chars,                          \* file.chars(), one-character strings
    rv,                             \* the output built so far
    previous_state,
    state,
    pp_index,                       \* `index`
    line,
    column,
    definitions,                    \* the HashMap: name -> replacement
    directive_buf,
    directive,
    directive_parameter_buf,
    directive_parameter_delimiter,
    directive_line,
    directive_column,
    pp_res,                         \* <<>> while the loop runs, then <<the result>>
    \* ---- Omni::parse and the chunk reader (SpecRead)
    rd_stream,    \* the input: items with their positions
    rd_checks,    \* the build panics on integer overflow
    rd_eof_any,   \* is_eof of an enum error: TRUE if one variant's end of file is enough
    rd_pos,       \* reader.stream_position()
    rd_pc,        \* what runs next: "chunk", "ob", "list", "chunks", "ret", "done"
    rd_buf,       \* the buf_size argument of the reader that runs next
    rd_stack,     \* the readers that wait for the one that runs
    rd_ret,       \* the result handed to the reader on top of rd_stack
    rd_res,       \* <<>>, then <<the result of Omni::parse>>
    \* ---- the closure of Text::parser (SpecParse)
    pr_file,      \* the blocks Block::parser().repeated() collected, in file order
    pr_sort,      \* the insertion sort of the build's slice::sort_by: "head" or "tail"
    pr_bulk,      \* the build's BTreeMap::from_iter builds in bulk (TRUE) or inserts
    pr_pc,        \* what runs next: "sort", "pop", "build", then "done" or "panic"
    pr_vec,       \* the closure's `blocks` vector
    pr_settings,  \* Text.settings, <<>> before it is taken
    pr_map,       \* Text.blocks: the BTreeMap as its entries in key order
    \* ---- a Definition written by Display and read by RValue::parser (SpecValue)
    vl_def,       \* the RValue::Definition that is written
    vl_pc,        \* what runs next: "fmt", "parse", then "done"
    vl_text,      \* the text Display wrote, one-character strings
    vl_parsed     \* <<>>, then <<the result of RValue::parser>>

lowerVars == <<lw_in, lw_top, lw_out>>
textVars == <<omni, tpc, index, pending, settings, blocks, inserted, rendered>>
headerVars == <<hd_raw, hd_checks, hd_size>>
preVars == <<chars, rv, previous_state, state, pp_index, line, column, definitions,
             directive_buf, directive, directive_parameter_buf,
             directive_parameter_delimiter, directive_line, directive_column, pp_res>>
readVars == <<rd_stream, rd_checks, rd_eof_any, rd_pos, rd_pc, rd_buf, rd_stack, rd_ret,
              rd_res>>
parseVars == <<pr_file, pr_sort, pr_bulk, pr_pc, pr_vec, pr_settings, pr_map>>
valueVars == <<vl_def, vl_pc, vl_text, vl_parsed>>
vars == <<lowerVars, textVars, headerVars, preVars, readVars, parseVars, valueVars>>

\* what an action of one part leaves alone: the variables of the other parts
notLower == <<textVars, headerVars, preVars, readVars, parseVars, valueVars>>
notText == <<lowerVars, headerVars, preVars, readVars, parseVars, valueVars>>
notHeader == <<lowerVars, textVars, preVars, readVars, parseVars, valueVars>>
notPre == <<lowerVars, textVars, headerVars, readVars, parseVars, valueVars>>
notRead == <<lowerVars, textVars, headerVars, preVars, parseVars, valueVars>>
notParse == <<lowerVars, textVars, headerVars, preVars, readVars, valueVars>>
notValue == <<lowerVars, textVars, headerVars, preVars, readVars, parseVars>>


(***************************************************************************)
(* The text model: RValue, Statement, Block (text/mod.rs).                 *)
(***************************************************************************)
RString(s) == [t |-> "String", v |-> s]
RInteger(i) == [t |-> "Integer", v |-> i]
RVec3(v) == [t |-> "Vec3", v |-> v]
\* RValue::Definition(Definition::<d>(v))
RDefinition(d, v) == [t |-> "Definition", d |-> d, v |-> v]

Assignment(l, r) == [kind |-> "Assignment", name |-> l, value |-> r]
Declaration(d) == [kind |-> "Declaration", name |-> d]

Block(id, block_type, name, is_weave, statements) ==
    [id |-> id, block_type |-> block_type, name |-> name,
     is_weave |-> is_weave, statements |-> statements]

\* types.rs: the three constant vectors the lowering compares with
Vec3_ZERO == <<0, 0, 0>>
Vec3_Y == <<0, 1, 0>>
Vec3_Z == <<0, 0, 1>>

\* u32::MAX, the id of the settings block.  The checker's integers are 32-bit
\* signed and cannot hold 4294967295; ids are only ever compared, so the
\* largest value it can hold stands for it (every object id of the model is
\* smaller, as every u32 is at most u32::MAX).
U32_MAX == 2147483647

\* the volume a sound is given when the text names none (0x4F)
DefaultVolume == 79

\* Rust's integer division truncates towards zero (TLA+'s \div floors)
TruncDiv(a, b) == IF a >= 0 THEN a \div b ELSE -((-a) \div b)

(***************************************************************************)
(* to_block: (Option<Block>, Vec<Block>, Vec<Block>), or a panic.          *)
(* Option<Block> is a sequence of length 0 or 1.                           *)
(***************************************************************************)
Lowered(b, before, after) ==
    [panic |-> FALSE, block |-> b, before |-> before, after |-> after]
Panicked == [panic |-> TRUE, block |-> <<>>, before |-> <<>>, after |-> <<>>]

\* `if cond { statements.push(stmt) }`
PushIf(cond, stmt) == IF cond THEN <<stmt>> ELSE <<>>

\* str::trim_end_matches(".evt") on a file name held as its parts
RECURSIVE TrimEndEvt(_)
TrimEndEvt(f) ==
    IF Len(f) > 0 /\ f[Len(f)] = ".evt" THEN TrimEndEvt(SubSeq(f, 1, Len(f) - 1))
    ELSE f

\* mutant: the buffer size is written in bytes, not divided by 1024
MxHd_to_block_Bytes(hd) ==
    Lowered(<<Block(U32_MAX, "defineSettings", "Configuration", FALSE,
                    << Assignment("bufferSizeKB", RInteger(hd.buffer_size)),
                       Assignment("buffersNum", RInteger(hd.buffer_count)) >>)>>,
            <<>>, <<>>)

\* impl ToBlock for MxHd
MxHd_to_block(hd) ==
    Lowered(<<Block(U32_MAX, "defineSettings", "Configuration", FALSE,
                    << Assignment("bufferSizeKB", RInteger(TruncDiv(hd.buffer_size, 1024))),
                       Assignment("buffersNum", RInteger(hd.buffer_count)) >>)>>,
            <<>>, <<>>)

\* the statements every lowering shares: handlerClass, location, direction, up
HandlerClass(o, suppressed) ==
    PushIf(o.presenter # "" /\ o.presenter \notin suppressed,
           Assignment("handlerClass", RString(o.presenter)))
\* mutant: direction is compared with the zero vector, as location is
Placement_DirectionZero(o) ==
       PushIf(o.location # Vec3_ZERO, Assignment("location", RVec3(o.location)))
    \o PushIf(o.direction # Vec3_ZERO, Assignment("direction", RVec3(o.direction)))
    \o PushIf(o.up # Vec3_Y, Assignment("up", RVec3(o.up)))
Placement(o) ==
       PushIf(o.location # Vec3_ZERO, Assignment("location", RVec3(o.location)))
    \o PushIf(o.direction # Vec3_Z, Assignment("direction", RVec3(o.direction)))
    \o PushIf(o.up # Vec3_Y, Assignment("up", RVec3(o.up)))
DurationStmt(o) ==
    PushIf(o.duration # 0, Assignment("duration", RDefinition("Duration", o.duration)))
PaletteStmt(o) ==
    PushIf(~o.has_palette_management,
           Assignment("paletteManagement", RDefinition("PaletteManagement", "None")))
\* ExtraString is Option<NullString>: <<>> or <<s>>
ExtraStmt(o, name) ==
    IF o.extra # <<>> THEN <<Assignment(name, RString(o.extra[1]))>> ELSE <<>>
LoopCountStmt(o) ==
    PushIf(o.loops # 1, Assignment("loopCount", RInteger(o.loops)))
\* `if !no_loop { push(loopingMethod = if loop_cache {Cache} else if loop_stream
\* {Stream} else {unreachable!()}) }`
LoopingPanics(o) ==
    ~o.flags.no_loop /\ ~o.flags.loop_cache /\ ~o.flags.loop_stream
LoopingStmt(o) ==
    PushIf(~o.flags.no_loop,
           Assignment("loopingMethod",
                      RDefinition("LoopingMethod",
                                  IF o.flags.loop_cache THEN "Cache" ELSE "Stream")))

\* impl ToBlock for MxVideo
MxVideo_to_block(o, top_level) ==
    Lowered(<<Block(o.id, "defineAnim", o.name, top_level,
                 <<Assignment("fileName", RString(o.filename))>>
              \o HandlerClass(o, {}) \o Placement(o) \o PaletteStmt(o)
              \o DurationStmt(o) \o ExtraStmt(o, "extra"))>>,
            <<>>, <<>>)

\* impl ToBlock for MxSound
MxSound_to_block(o, top_level) ==
    IF LoopingPanics(o) THEN Panicked
    ELSE Lowered(<<Block(o.id, "defineSound", o.name, top_level,
                 <<Assignment("fileName", RString(o.filename))>>
              \o HandlerClass(o, {"Lego3DWavePresenter"}) \o Placement(o)
              \o PushIf(o.volume # DefaultVolume, Assignment("volume", RInteger(o.volume)))
              \o PushIf(o.start_time # 0, Assignment("startTime", RInteger(o.start_time)))
              \o LoopCountStmt(o) \o LoopingStmt(o)
              \o ExtraStmt(o, "entityName"))>>,
            <<>>, <<>>)

\* impl ToBlock for MxEvent
MxEvent_to_block(o, top_level) ==
    Lowered(<<Block(o.id, "defineEvent", o.name, top_level,
                 <<Assignment("fileName", RString(TrimEndEvt(o.filename)))>>
              \o HandlerClass(o, {}) \o Placement(o) \o ExtraStmt(o, "extra"))>>,
            <<>>, <<>>)

\* impl ToBlock for MxBitmap
MxBitmap_to_block(o, top_level) ==
    Lowered(<<Block(o.id, "defineStill", o.name, top_level,
                 <<Assignment("fileName", RString(o.filename))>>
              \o HandlerClass(o, {}) \o DurationStmt(o) \o Placement(o)
              \o PaletteStmt(o)
              \o PushIf(o.flags.transparent,
                        Assignment("transparency", RDefinition("Transparency", "Yes")))
              \o ExtraStmt(o, "extra"))>>,
            <<>>, <<>>)

\* impl ToBlock for MxObject
MxObject_to_block(o, top_level) ==
    Lowered(<<Block(o.id, "defineObject", o.name, top_level,
                 <<Assignment("fileName", RString(o.filename))>>
              \o HandlerClass(o, {}) \o Placement(o) \o DurationStmt(o)
              \o ExtraStmt(o, "extra"))>>,
            <<>>, <<>>)

\* RiffChunk::get_name: unreachable!() for every chunk but MxOb
GetNamePanics(chunk) == chunk.tag # "MxOb"

RECURSIVE RiffChunk_to_block(_, _)
RECURSIVE PresenterChildren(_, _, _)

\* The loop of MxPresenter::to_block over list.subchunks, from child i on:
\* acc holds the Declarations pushed and the blocks_before so far.
PresenterChildren(chunks, i, acc) ==
    IF acc.panic \/ i > Len(chunks) THEN acc
    ELSE IF GetNamePanics(chunks[i]) THEN [acc EXCEPT !.panic = TRUE]
    ELSE LET r == RiffChunk_to_block(chunks[i], FALSE)
         IN IF r.panic THEN [acc EXCEPT !.panic = TRUE]
            ELSE PresenterChildren(chunks, i + 1,
                    [panic |-> FALSE,
                     decls |-> Append(acc.decls, Declaration(chunks[i].obj.name)),
                     before |-> acc.before \o r.before \o r.block \o r.after])

\* impl ToBlock for MxPresenter
MxPresenter_to_block(o, top_level) ==
    IF LoopingPanics(o) THEN Panicked
    ELSE LET kids == PresenterChildren(o.list, 1,
                        [panic |-> FALSE, decls |-> <<>>, before |-> <<>>])
         IN IF kids.panic THEN Panicked
            ELSE Lowered(<<Block(o.id, "parallelAction", o.name, top_level,
                            HandlerClass(o, {}) \o Placement(o)
                         \o LoopCountStmt(o) \o LoopingStmt(o)
                         \o kids.decls \o ExtraStmt(o, "extra"))>>,
                         kids.before, <<>>)

\* MxObType::to_block with the two todo!() arms returning no block
MxObType_to_block_SkipTodo(o, top_level) ==
    CASE o.type = "Video" -> MxVideo_to_block(o, top_level)
      [] o.type = "Sound" -> MxSound_to_block(o, top_level)
      [] o.type = "World" -> Lowered(<<>>, <<>>, <<>>)
      [] o.type = "Presenter" -> MxPresenter_to_block(o, top_level)
      [] o.type = "Event" -> MxEvent_to_block(o, top_level)
      [] o.type = "Animation" -> Lowered(<<>>, <<>>, <<>>)
      [] o.type = "Bitmap" -> MxBitmap_to_block(o, top_level)
      [] o.type = "Object" -> MxObject_to_block(o, top_level)

\* impl ToBlock for MxObType: World and Animation are todo!()
MxObType_to_block(o, top_level) ==
    CASE o.type = "Video" -> MxVideo_to_block(o, top_level)
      [] o.type = "Sound" -> MxSound_to_block(o, top_level)
      [] o.type = "World" -> Panicked
      [] o.type = "Presenter" -> MxPresenter_to_block(o, top_level)
      [] o.type = "Event" -> MxEvent_to_block(o, top_level)
      [] o.type = "Animation" -> Panicked
      [] o.type = "Bitmap" -> MxBitmap_to_block(o, top_level)
      [] o.type = "Object" -> MxObject_to_block(o, top_level)

\* impl ToBlock for RiffChunk (MxOb and MxSt both lower their object)
RiffChunk_to_block(chunk, top_level) ==
    CASE chunk.tag = "RIFF" -> Panicked
      [] chunk.tag = "LIST" -> Panicked
      [] chunk.tag = "MxHd" -> MxHd_to_block(chunk.hd)
      [] chunk.tag = "MxOf" -> Panicked
      [] chunk.tag = "MxCh" -> Panicked
      [] chunk.tag = "MxOb" -> MxObType_to_block(chunk.obj, top_level)
      [] chunk.tag = "MxSt" -> MxObType_to_block(chunk.obj, top_level)
      [] chunk.tag = "pad " -> Lowered(<<>>, <<>>, <<>>)


(***************************************************************************)
(* Decoded values: objects (MxObType) and chunks (RiffChunk).  Every       *)
(* object record carries the fields of all variants; a variant ignores     *)
(* the ones it does not have.                                              *)
(***************************************************************************)
MxObFlags(loop_cache, no_loop, loop_stream, transparent) ==
    [loop_cache |-> loop_cache, no_loop |-> no_loop,
     loop_stream |-> loop_stream, transparent |-> transparent]

\* an object whose every field has the value the lowering suppresses
MxObject(type, id, name) ==
    [type |-> type, presenter |-> "", name |-> name, id |-> id,
     flags |-> MxObFlags(FALSE, TRUE, FALSE, FALSE),
     start_time |-> 0, duration |-> 0, loops |-> 1,
     location |-> Vec3_ZERO, direction |-> Vec3_Z, up |-> Vec3_Y,
     extra |-> <<>>, filename |-> <<"HORN", ".WAV">>,
     volume |-> DefaultVolume, has_palette_management |-> TRUE,
     list |-> <<>>]

NoObject == MxObject("None", 0, "")
MxHd(buffer_size, buffer_count) ==
    [buffer_size |-> buffer_size, buffer_count |-> buffer_count]
NoHd == MxHd(0, 0)

\* RiffChunk variants, as far as the lowering reads them
Chunk(tag) == [tag |-> tag, obj |-> NoObject, hd |-> NoHd]
ObChunk(o) == [tag |-> "MxOb", obj |-> o, hd |-> NoHd]
StChunk(o) == [tag |-> "MxSt", obj |-> o, hd |-> NoHd]
HdChunk(h) == [tag |-> "MxHd", obj |-> NoObject, hd |-> h]

(***************************************************************************)
(* SpecLower: to_block applied to one chunk.                               *)
(***************************************************************************)
MaxLoops == 2
MaxDuration == 1

ObTypes == {"Video", "Sound", "World", "Presenter", "Event", "Animation",
            "Bitmap", "Object"}
LeafTypes == {"Video", "Sound", "Event", "Bitmap", "Object"}

LowerObjects ==
    { [MxObject(t, 1, "a") EXCEPT
          !.presenter = p, !.location = l, !.direction = d, !.up = u,
          !.loops = n, !.duration = dur,
          !.flags = MxObFlags(f[1], f[2], f[3], f[4]),
          !.list = IF t \in {"Presenter", "World"}
                   THEN <<ObChunk(MxObject(k, 2, "b"))>> ELSE <<>>] :
        t \in ObTypes, k \in {"Sound", "Animation", "World"},
        p \in {"", "P", "Lego3DWavePresenter"},
        l \in {Vec3_ZERO, Vec3_Z}, d \in {Vec3_Z, Vec3_Y}, u \in {Vec3_Y, Vec3_ZERO},
        n \in 0..MaxLoops, dur \in (-1)..MaxDuration,
        f \in BOOLEAN \X BOOLEAN \X BOOLEAN \X BOOLEAN }

LowerHeaders ==
    { MxHd(bs, bc) : bs \in {0, 1023, 1024, 10240, 65536, -1, -1024, -1025},
                     bc \in {0, 4, -1} }

RECURSIVE SeqsUpTo(_, _)
SeqsUpTo(S, n) ==
    IF n = 0 THEN {<<>>}
    ELSE LET shorter == SeqsUpTo(S, n - 1)
         IN shorter \cup {Append(q, x) : q \in shorter, x \in S}

\* what the list of a Presenter is drawn from: objects, a Presenter with
\* children of its own, a pad chunk, a stream-object wrapper
MaxChildren == 2
ChildChunks ==
    { ObChunk(MxObject("Sound", 2, "b")),
      ObChunk(MxObject("Bitmap", 3, "c")),
      ObChunk([MxObject("Presenter", 4, "d") EXCEPT
                   !.list = << ObChunk(MxObject("Sound", 5, "e")),
                               ObChunk(MxObject("Event", 6, "f")) >>]),
      Chunk("pad "),
      StChunk(MxObject("Object", 7, "g")) }
LowerPresenters ==
    { [MxObject("Presenter", 1, "a") EXCEPT !.list = q] :
        q \in SeqsUpTo(ChildChunks, MaxChildren) }

LowerChunks ==
    {ObChunk(o) : o \in LowerObjects \cup LowerPresenters}
        \cup {HdChunk(h) : h \in LowerHeaders}


\* one call of <RiffChunk as ToBlock>::to_block
Lower ==
    /\ lw_out = <<>>
    /\ lw_out' = <<RiffChunk_to_block(lw_in, lw_top)>>
    /\ UNCHANGED <<lw_in, lw_top, notLower>>


(***************************************************************************)
(* SortingId and the BTreeMap<SortingId, Block> of Text (text/mod.rs).     *)
(***************************************************************************)
\* offsets.get(id as usize).unwrap_or(&0)
OffsetOf(offsets, id) == IF id < Len(offsets) THEN offsets[id + 1] ELSE 0

\* SortingId::from_id_index
SortingId_from_id_index(block_type, id, offsets, idx, parent_id, parent_index) ==
    [block_type |-> block_type, id |-> id, offset |-> OffsetOf(offsets, id),
     index |-> idx, parent_id |-> parent_id,
     parent_offset |-> OffsetOf(offsets, parent_id), parent_index |-> parent_index]

\* mutant: the early return is dropped and the last line of cmp decides
SortingId_cmp_ByIndex(a, b) ==
    IF a.index < b.index THEN "Less" ELSE IF a.index = b.index THEN "Equal" ELSE "Greater"

\* impl Ord for SortingId: `return self.id.cmp(&other.id);` (the rest is dead code)
SortingId_cmp(a, b) ==
    IF a.id < b.id THEN "Less" ELSE IF a.id = b.id THEN "Equal" ELSE "Greater"

\* mutant: a multimap, which keeps both blocks when the keys compare equal
BTreeMap_insert_Multi(m, k, v) ==
    LET n == Cardinality({j \in 1..Len(m) : SortingId_cmp(m[j].key, k) # "Greater"})
    IN SubSeq(m, 1, n) \o <<[key |-> k, value |-> v]>> \o SubSeq(m, n + 1, Len(m))

\* mutant: an equal key keeps the block it has (as entry().or_insert would)
BTreeMap_insert_KeepOld(m, k, v) ==
    IF \E i \in 1..Len(m) : SortingId_cmp(m[i].key, k) = "Equal"
    THEN m
    ELSE LET n == Cardinality({j \in 1..Len(m) : SortingId_cmp(m[j].key, k) = "Less"})
         IN SubSeq(m, 1, n) \o <<[key |-> k, value |-> v]>> \o SubSeq(m, n + 1, Len(m))

\* BTreeMap::insert: an equal key keeps the old key and takes the new value,
\* a new key goes after the keys that compare Less
BTreeMap_insert(m, k, v) ==
    IF \E i \in 1..Len(m) : SortingId_cmp(m[i].key, k) = "Equal"
    THEN LET i == CHOOSE j \in 1..Len(m) : SortingId_cmp(m[j].key, k) = "Equal"
         IN [m EXCEPT ![i].value = v]
    ELSE LET n == Cardinality({j \in 1..Len(m) : SortingId_cmp(m[j].key, k) = "Less"})
         IN SubSeq(m, 1, n) \o <<[key |-> k, value |-> v]>> \o SubSeq(m, n + 1, Len(m))

\* BTreeMap::values
BTreeMap_values(m) == [i \in 1..Len(m) |-> m[i].value]

(***************************************************************************)
(* SpecText: Text::from_omni, then Text::collect.                          *)
(***************************************************************************)
MaxStreams == 3
MaxId == 3

ObjName(id) == <<"obj1", "obj2", "obj3", "obj4", "obj5", "obj6">>[id]
Ob(type, id) == MxObject(type, id, ObjName(id))
Presenter(id, list) == [Ob("Presenter", id) EXCEPT !.list = list]

\* the chunks the top-level list is drawn from
TextChunks ==
    {ObChunk(Ob("Sound", id)) : id \in 1..MaxId}
    \cup { ObChunk([Ob("Sound", 1) EXCEPT !.flags = MxObFlags(FALSE, FALSE, FALSE, FALSE)]),
           ObChunk([Ob("Sound", 2) EXCEPT !.flags = MxObFlags(TRUE, FALSE, FALSE, FALSE)]),
           ObChunk(Ob("Animation", 2)),
           ObChunk(Ob("World", 2)),
           ObChunk(Presenter(1, <<ObChunk(Ob("Bitmap", MaxId))>>)),
           ObChunk(Presenter(MaxId, <<ObChunk(Ob("Video", 2)), ObChunk(Ob("Event", 1))>>)),
           ObChunk(Presenter(2, <<Chunk("pad ")>>)),
           ObChunk(Presenter(2, <<ObChunk(Ob("World", 1))>>)),
           StChunk(Ob("Object", 2)),
           Chunk("pad "), Chunk("LIST"), HdChunk(MxHd(2048, 1)) }


\* (header, offset table) pairs of the containers
TextHeads ==
    { <<MxHd(10240, 4), <<0, 0, 0>>>>,
      <<MxHd(65536, 2), <<0, 40, 20, 60>>>>,
      <<MxHd(-1025, -1), <<>>>> }


\* `let (Some(settings), _, _) = omni.header.to_block(true)`, `BTreeMap::new()`
FromOmniStart ==
    /\ tpc = "start"
    /\ settings' = MxHd_to_block(omni.header).block
    /\ blocks' = <<>>
    /\ index' = 0
    /\ tpc' = "lower"
    /\ UNCHANGED <<omni, pending, inserted, rendered, notText>>

\* the (key, block) pairs one iteration hands to blocks.insert, in call order
InsertsOf(r, idx, offsets) ==
    LET b == r.block[1]
        sub(q) == [i \in 1..Len(q) |->
                      [key |-> SortingId_from_id_index(q[i].block_type, q[i].id,
                                                      offsets, i - 1, b.id, idx),
                       value |-> q[i]]]
    IN <<[key |-> SortingId_from_id_index(b.block_type, b.id, offsets, idx, b.id, idx),
          value |-> b]>>
       \o sub(r.before) \o sub(r.after)

\* one iteration of `for (index, chunk) in omni.streams.subchunks.iter().enumerate()`
\* up to its first insert: chunk.to_block(true), which may panic
FromOmniLower ==
    /\ tpc = "lower"
    /\ index < Len(omni.streams)
    /\ LET r == RiffChunk_to_block(omni.streams[index + 1], TRUE)
       IN IF r.panic
          THEN tpc' = "panic" /\ UNCHANGED <<index, pending>>
          ELSE IF r.block = <<>>
          THEN tpc' = "lower" /\ index' = index + 1 /\ UNCHANGED pending
          ELSE /\ tpc' = "insert"
               /\ pending' = InsertsOf(r, index, omni.offsets)
               /\ UNCHANGED index
    /\ UNCHANGED <<omni, settings, blocks, inserted, rendered, notText>>

\* one `blocks.insert(sorting_id, block)`; after the last one the loop moves on
FromOmniInsert ==
    /\ tpc = "insert"
    /\ pending # <<>>
    /\ blocks' = BTreeMap_insert(blocks, Head(pending).key, Head(pending).value)
    /\ inserted' = Append(inserted, Head(pending).value.id)
    /\ pending' = Tail(pending)
    /\ IF Tail(pending) = <<>>
       THEN tpc' = "lower" /\ index' = index + 1
       ELSE UNCHANGED <<tpc, index>>
    /\ UNCHANGED <<omni, settings, rendered, notText>>

\* `Ok(Self { settings, blocks })`
FromOmniReturn ==
    /\ tpc = "lower"
    /\ index = Len(omni.streams)
    /\ tpc' = "built"
    /\ UNCHANGED <<omni, index, pending, settings, blocks, inserted, rendered, notText>>

\* Text::collect: the settings block, then blocks.values() in key order
Collect ==
    /\ tpc = "built"
    /\ rendered' = settings \o BTreeMap_values(blocks)
    /\ tpc' = "rendered"
    /\ UNCHANGED <<omni, index, pending, settings, blocks, inserted, notText>>

(***************************************************************************)
(* RiffChunkHeader: `#[br(map(|x: u32| ((x + 1) & !1)))] pub size: u32`.   *)
(* A u32 is held as two 16-bit limbs, so that the whole range, up to       *)
(* 0xFFFFFFFF, is within reach of the checker's integers.                  *)
(***************************************************************************)
Limb == 2^16
U32(n) == [hi |-> n \div Limb, lo |-> n % Limb]
\* the value of a u32 below 2^31
U32_value(u) == u.hi * Limb + u.lo

\* x + 1 on u32: a build with overflow checks panics at u32::MAX, one
\* without wraps to 0
U32_add1(x, checks) ==
    IF x.lo + 1 < Limb THEN [panic |-> FALSE, v |-> [hi |-> x.hi, lo |-> x.lo + 1]]
    ELSE IF x.hi + 1 < Limb THEN [panic |-> FALSE, v |-> [hi |-> x.hi + 1, lo |-> 0]]
    ELSE IF checks THEN [panic |-> TRUE, v |-> U32(0)]
    ELSE [panic |-> FALSE, v |-> U32(0)]
\* x & !1
U32_clear_bit0(x) == [hi |-> x.hi, lo |-> x.lo - (x.lo % 2)]

\* the map of RiffChunkHeader.size
RiffChunkHeader_size(x, checks) ==
    LET a == U32_add1(x, checks)
    IN [panic |-> a.panic, v |-> U32_clear_bit0(a.v)]

MaxLow == 15
HeaderRaws ==
    { [hi |-> h, lo |-> l] :
        h \in {0, 1, Limb - 1},
        l \in (0..MaxLow) \cup ((Limb - 1 - MaxLow)..(Limb - 1)) }

\* one read of a RiffChunkHeader
ReadHeader ==
    /\ hd_size = <<>>
    /\ hd_size' = <<RiffChunkHeader_size(hd_raw, hd_checks)>>
    /\ UNCHANGED <<hd_raw, hd_checks, notHeader>>


(***************************************************************************)
(* Preprocessor::preprocess (text/preprocessor.rs): the character loop,    *)
(* one action per state of the machine, each one iteration of the loop.    *)
(***************************************************************************)
\* PreprocessError values and the Ok result
UnexpectedToken(c, l, col) ==
    [kind |-> "UnexpectedToken", tok |-> c, line |-> l, column |-> col]
UnexpectedEndState(st) == [kind |-> "UnexpectedEndState", state |-> st]
UnknownDirective(buf, l, col) ==
    [kind |-> "UnknownDirective", name |-> buf, line |-> l, column |-> col]
NoParams(dir, l, col) == [kind |-> "NoParams", directive |-> dir, line |-> l, column |-> col]
TooManyParameters(dir, l, col) ==
    [kind |-> "TooManyParameters", directive |-> dir, line |-> l, column |-> col]
Ok(text) == [kind |-> "Ok", text |-> text]

\* parse_directive_buf: <<the directive>> or <<>> for an unknown name
parse_directive_buf(buf) ==
    IF buf = <<"d", "e", "f", "i", "n", "e">> THEN <<"Define">>
    ELSE IF buf = <<"i", "n", "c", "l", "u", "d", "e">> THEN <<"Include">>
    ELSE <<>>

\* the character of this iteration
CurChar == chars[pp_index + 1]
Running == pp_res = <<>> /\ pp_index < Len(chars)

\* `index += 1; column += 1;` at the end of an iteration
Advance == pp_index' = pp_index + 1 /\ column' = column + 1
\* `return Err(e)`
Fail(e) == pp_res' = <<e>> /\ UNCHANGED <<pp_index, column>>

\* directive_parameter_buf.last_mut().unwrap().push(c)
PushToLast(buf, c) == [buf EXCEPT ![Len(buf)] = Append(@, c)]
\* HashMap::insert
HashMap_insert(m, k, v) ==
    [x \in DOMAIN m \cup {k} |-> IF x = k THEN v ELSE m[x]]

\* `if c != '\r'` is false: the character is skipped
PreCarriageReturn ==
    /\ Running
    /\ CurChar = "\r"
    /\ Advance
    /\ UNCHANGED <<chars, rv, previous_state, state, line, definitions, directive_buf,
                   directive, directive_parameter_buf, directive_parameter_delimiter,
                   directive_line, directive_column, pp_res, notPre>>

\* the names of self.definitions that `index + len < chars.len() &&
\* chars[index..index + len] == k` accepts at this index
MatchingAt(defs, cs, i) ==
    { k \in DOMAIN defs : i + Len(k) < Len(cs) /\ SubSeq(cs, i + 1, i + Len(k)) = k }

\* PreprocessorState::Expecting
PreExpecting ==
    /\ Running
    /\ CurChar # "\r"
    /\ state = "Expecting"
    /\ CASE CurChar = "/" ->
              /\ previous_state' = state
              /\ state' = "Slash"
              /\ Advance
              /\ UNCHANGED <<rv, line, directive_buf, directive_line, directive_column>>
         [] CurChar = "#" ->
              /\ previous_state' = state
              /\ state' = "Directive"
              /\ directive_buf' = <<>>
              /\ directive_line' = line
              /\ directive_column' = column
              /\ Advance
              /\ UNCHANGED <<rv, line>>
         [] CurChar = "\n" ->
              /\ column' = 0
              /\ line' = line + 1
              /\ pp_index' = pp_index + 1
              /\ rv' = Append(rv, CurChar)
              /\ UNCHANGED <<previous_state, state, directive_buf, directive_line,
                             directive_column>>
         [] OTHER ->
              \* `for (k, v) in &self.definitions`: the iteration order of a
              \* HashMap is not specified, so any matching name may come first
              /\ IF MatchingAt(definitions, chars, pp_index) # {}
                 THEN \E k \in MatchingAt(definitions, chars, pp_index) :
                         /\ rv' = rv \o definitions[k]
                         /\ pp_index' = pp_index + Len(k)
                         /\ UNCHANGED column
                 ELSE rv' = Append(rv, CurChar) /\ Advance
              /\ UNCHANGED <<previous_state, state, line, directive_buf, directive_line,
                             directive_column>>
    /\ UNCHANGED <<chars, definitions, directive, directive_parameter_buf,
                   directive_parameter_delimiter, pp_res, notPre>>

\* PreprocessorState::Slash
PreSlash ==
    /\ Running
    /\ CurChar # "\r"
    /\ state = "Slash"
    /\ CASE CurChar = "/" -> state' = "SkipLine" /\ Advance /\ UNCHANGED pp_res
         [] CurChar = "*" -> state' = "SkipComment" /\ Advance /\ UNCHANGED pp_res
         [] OTHER -> Fail(UnexpectedToken(CurChar, line, column)) /\ UNCHANGED state
    /\ UNCHANGED <<chars, rv, previous_state, line, definitions, directive_buf,
                   directive, directive_parameter_buf, directive_parameter_delimiter,
                   directive_line, directive_column, notPre>>

\* PreprocessorState::SkipLine
PreSkipLine ==
    /\ Running
    /\ CurChar # "\r"
    /\ state = "SkipLine"
    /\ IF CurChar = "\n"
       THEN /\ state' = previous_state
            /\ column' = 0
            /\ line' = line + 1
            /\ pp_index' = pp_index + 1
            /\ rv' = Append(rv, CurChar)
       ELSE Advance /\ UNCHANGED <<state, line, rv>>
    /\ UNCHANGED <<chars, previous_state, definitions, directive_buf,
                   directive, directive_parameter_buf, directive_parameter_delimiter,
                   directive_line, directive_column, pp_res, notPre>>

\* PreprocessorState::SkipComment
PreSkipComment ==
    /\ Running
    /\ CurChar # "\r"
    /\ state = "SkipComment"
    /\ state' = IF CurChar = "*" THEN "EndComment" ELSE state
    /\ Advance
    /\ UNCHANGED <<chars, rv, previous_state, line, definitions, directive_buf,
                   directive, directive_parameter_buf, directive_parameter_delimiter,
                   directive_line, directive_column, pp_res, notPre>>

\* PreprocessorState::EndComment
PreEndComment ==
    /\ Running
    /\ CurChar # "\r"
    /\ state = "EndComment"
    /\ IF CurChar = "/"
       THEN state' = previous_state /\ Advance /\ UNCHANGED pp_res
       ELSE Fail(UnexpectedToken(CurChar, line, column)) /\ UNCHANGED state
    /\ UNCHANGED <<chars, rv, previous_state, line, definitions, directive_buf,
                   directive, directive_parameter_buf, directive_parameter_delimiter,
                   directive_line, directive_column, notPre>>

\* PreprocessorState::Directive
PreDirective ==
    /\ Running
    /\ CurChar # "\r"
    /\ state = "Directive"
    /\ CASE CurChar \in {" ", "\t", "\"", "<"} ->
              LET d == parse_directive_buf(directive_buf)
              IN IF d = <<>>
                 THEN /\ Fail(UnknownDirective(directive_buf, directive_line,
                                               directive_column))
                      /\ UNCHANGED <<state, directive, directive_parameter_buf,
                                     directive_buf>>
                 ELSE /\ directive' = d[1]
                      /\ state' = "DirectiveParameter"
                      /\ directive_parameter_buf' = << <<>> >>
                      \* after '"' or '<' the loop continues without moving on
                      /\ IF CurChar \in {" ", "\t"} THEN Advance
                         ELSE UNCHANGED <<pp_index, column>>
                      /\ UNCHANGED <<pp_res, directive_buf>>
         [] CurChar = "\n" ->
              /\ Fail(UnexpectedToken(CurChar, line, column))
              /\ UNCHANGED <<state, directive, directive_parameter_buf, directive_buf>>
         [] OTHER ->
              /\ directive_buf' = Append(directive_buf, CurChar)
              /\ Advance
              /\ UNCHANGED <<state, directive, directive_parameter_buf, pp_res>>
    /\ UNCHANGED <<chars, rv, previous_state, line, definitions,
                   directive_parameter_delimiter, directive_line, directive_column,
                   notPre>>

\* the end of a directive line: what `match directive { .. }` does with the
\* parameters; <<>> when it returns no error
DirectiveError(dir, params, l, col) ==
    IF Len(params) = 0 THEN <<NoParams(dir, l, col)>>
    ELSE IF Len(params) = 1 THEN <<>>
    ELSE IF Len(params) = 2 /\ dir = "Define" THEN <<>>
    ELSE <<TooManyParameters(dir, l, col)>>
\* self.definitions after a directive line that returned no error
DirectiveEffect(defs, dir, params) ==
    IF dir = "Define"
    THEN HashMap_insert(defs, params[1], IF Len(params) = 1 THEN <<>> ELSE params[2])
    ELSE defs

\* PreprocessorState::DirectiveParameter
PreDirectiveParameter ==
    /\ Running
    /\ CurChar # "\r"
    /\ state = "DirectiveParameter"
    /\ CASE CurChar \in {"\"", "<"} ->
              /\ directive_parameter_delimiter' = CurChar
              /\ state' = "DirectiveString"
              /\ directive_parameter_buf' = PushToLast(directive_parameter_buf, CurChar)
              /\ Advance
              /\ UNCHANGED <<definitions, pp_res>>
         [] CurChar = "\n" ->
              LET params == IF directive_parameter_buf[Len(directive_parameter_buf)] = <<>>
                            THEN SubSeq(directive_parameter_buf, 1,
                                        Len(directive_parameter_buf) - 1)
                            ELSE directive_parameter_buf
                  err == DirectiveError(directive, params, directive_line, directive_column)
              IN /\ directive_parameter_buf' = params
                 /\ IF err # <<>>
                    THEN Fail(err[1]) /\ UNCHANGED <<definitions, state>>
                    ELSE /\ definitions' = DirectiveEffect(definitions, directive, params)
                         /\ state' = previous_state
                         /\ Advance
                         /\ UNCHANGED pp_res
                 /\ UNCHANGED directive_parameter_delimiter
         [] CurChar \in {" ", "\t"} ->
              /\ directive_parameter_buf' =
                    IF directive_parameter_buf[Len(directive_parameter_buf)] # <<>>
                    THEN Append(directive_parameter_buf, <<>>)
                    ELSE directive_parameter_buf
              /\ Advance
              /\ UNCHANGED <<definitions, state, directive_parameter_delimiter, pp_res>>
         [] OTHER ->
              /\ directive_parameter_buf' = PushToLast(directive_parameter_buf, CurChar)
              /\ Advance
              /\ UNCHANGED <<definitions, state, directive_parameter_delimiter, pp_res>>
    /\ UNCHANGED <<chars, rv, previous_state, line, directive_buf, directive,
                   directive_line, directive_column, notPre>>

\* PreprocessorState::DirectiveString
PreDirectiveString ==
    /\ Running
    /\ CurChar # "\r"
    /\ state = "DirectiveString"
    /\ CASE CurChar = directive_parameter_delimiter ->
              /\ directive_parameter_buf' =
                    Append(PushToLast(directive_parameter_buf, CurChar), <<>>)
              /\ state' = "DirectiveParameter"
              /\ Advance
              /\ UNCHANGED pp_res
         [] CurChar = "\n" ->
              /\ Fail(UnexpectedToken(CurChar, line, column))
              /\ UNCHANGED <<directive_parameter_buf, state>>
         [] OTHER ->
              /\ directive_parameter_buf' = PushToLast(directive_parameter_buf, CurChar)
              /\ Advance
              /\ UNCHANGED <<state, pp_res>>
    /\ UNCHANGED <<chars, rv, previous_state, line, definitions, directive_buf,
                   directive, directive_parameter_delimiter, directive_line,
                   directive_column, notPre>>

\* a variant whose final match also accepts an unterminated block comment
EndResult_CommentOk(st, text) ==
    IF st \in {"Expecting", "SkipLine", "SkipComment"} THEN Ok(text)
    ELSE UnexpectedEndState(st)
\* `match state { .. }` after the loop
EndResult(st, text) ==
    IF st \in {"Expecting", "SkipLine"} THEN Ok(text) ELSE UnexpectedEndState(st)

\* the loop has run out of characters: the function returns
PreEnd ==
    /\ pp_res = <<>>
    /\ pp_index >= Len(chars)
    /\ pp_res' = <<EndResult(state, rv)>>
    /\ UNCHANGED <<chars, rv, previous_state, state, pp_index, line, column, definitions,
                   directive_buf, directive, directive_parameter_buf,
                   directive_parameter_delimiter, directive_line, directive_column,
                   notPre>>


(***************************************************************************)
(* The inputs of SpecPre: a first line, then up to MaxTokens pieces of     *)
(* text, each a sequence of characters.                                    *)
(***************************************************************************)
MaxTokens == 3
NameFOO == <<"F", "O", "O">>
ValueBar == <<"\"", "b", "a", "r", "\"">>
HashDefine == <<"#", "d", "e", "f", "i", "n", "e">>
DefineFooBar == HashDefine \o <<" ">> \o NameFOO \o <<" ">> \o ValueBar \o <<"\n">>
DefineFoo == HashDefine \o <<" ">> \o NameFOO \o <<"\n">>
IncludeF == <<"#", "i", "n", "c", "l", "u", "d", "e", " ", "<", "f", "<", "\n">>
DefineFooOne == HashDefine \o <<" ">> \o NameFOO \o <<" ">> \o <<"1">> \o <<"\n">>
\* FOO defined, used, and defined again
TwiceDefined == DefineFooBar \o NameFOO \o <<";">> \o DefineFooOne
FirstLines == {<<>>, DefineFooBar, DefineFoo, IncludeF, TwiceDefined}
PlainPieces == {NameFOO, NameFOO \o <<";">>, <<"X", " ", "=", " ">>, <<"\n">>}
Pieces ==
    PlainPieces \cup
    { <<"/", "/">>, <<"/", "*">>, <<"*", "/">>, <<"#">>, <<"\"">>, <<"\r", "\n">>,
      HashDefine \o <<" ">> \o NameFOO \o <<" ">> \o <<"1">> }
RECURSIVE Concat(_)
Concat(q) == IF q = <<>> THEN <<>> ELSE Head(q) \o Concat(Tail(q))
PreInputs == { f \o Concat(q) : f \in FirstLines, q \in SeqsUpTo(Pieces, MaxTokens) }


(***************************************************************************)
(* The chunk reader: RiffChunk (omni/riff/mod.rs), MxSt, MxOb, and         *)
(* Omni::parse (omni/mod.rs).  The stream is a sequence of items, each a   *)
(* run of bytes with the value it decodes to; the bytes of an item that    *)
(* is neither a tag nor a number are zero.  Stream positions are u64 and   *)
(* are held as [hi, lo] like the u32 sizes.                                *)
(***************************************************************************)
I32_MAX == 2147483647
I32_MIN == (-I32_MAX) - 1
DefaultBufSize == 65536
HeaderBytes == 8

U64_add(a, b) ==
    [hi |-> a.hi + b.hi + ((a.lo + b.lo) \div Limb), lo |-> (a.lo + b.lo) % Limb]
U64_lt(a, b) == a.hi < b.hi \/ (a.hi = b.hi /\ a.lo < b.lo)
\* position + n for a small n
U64_plus(a, n) == U64_add(a, U32(n))
\* seek(Current(d)): the position moved by the signed d; hi < 0 when the
\* target is before the start of the stream
U64_offset(a, d) ==
    [hi |-> a.hi + (d \div Limb) + ((a.lo + (d % Limb)) \div Limb),
     lo |-> (a.lo + (d % Limb)) % Limb]

\* x - n on u32 (n below Limb): a build with overflow checks panics when
\* x < n, one without wraps
U32_sub(x, n, checks) ==
    IF x.hi > 0 \/ x.lo >= n THEN [panic |-> FALSE, v |-> U64_offset(x, -n)]
    ELSE IF checks THEN [panic |-> TRUE, v |-> U32(0)]
    ELSE [panic |-> FALSE, v |-> [hi |-> Limb - 1, lo |-> Limb + x.lo - n]]

\* `before as i32`: the low 32 bits, read as a signed number
as_i32(p) ==
    LET h == p.hi % Limb
    IN (IF h >= Limb \div 2 THEN h - Limb ELSE h) * Limb + p.lo
\* a % b on i32 for b # 0: the remainder has the sign of a
i32_rem(a, b) ==
    IF b = I32_MIN THEN (IF a = I32_MIN THEN 0 ELSE a)
    ELSE LET m == IF b < 0 THEN -b ELSE b
             r == a % m
         IN IF a < 0 /\ r # 0 THEN r - m ELSE r
\* a + b and a - b on i32: panic or wrap on overflow
I32_add(a, b, checks) ==
    IF b >= 0 /\ a > I32_MAX - b
    THEN [panic |-> checks, v |-> ((a - I32_MAX) - 1) + b + I32_MIN]
    ELSE IF b < 0 /\ a < I32_MIN - b
    THEN [panic |-> checks, v |-> ((a - I32_MIN) + b + 1) + I32_MAX]
    ELSE [panic |-> FALSE, v |-> a + b]
I32_sub(a, b, checks) ==
    IF b < 0 /\ a > I32_MAX + b
    THEN [panic |-> checks, v |-> (((a - I32_MAX) - 1) - b) + I32_MIN]
    ELSE IF b > 0 /\ a < I32_MIN + b
    THEN [panic |-> checks, v |-> (((a - I32_MIN) - b) + 1) + I32_MAX]
    ELSE [panic |-> FALSE, v |-> a - b]

\* ---- the stream: an item is k = "tag" (4 bytes, a tag), "u32" (4 bytes, a
\* number), "hd" (the 12 bytes of an MxHd after its header), "ob" (the
\* fields of an MxObType, obj = <<the object>>) or "bytes" (zero bytes)
Item(k, len, tag, num, hd, obj) ==
    [k |-> k, at |-> U32(0), len |-> len, tag |-> tag, num |-> num, hd |-> hd, obj |-> obj]
StreamLen(s) == IF s = <<>> THEN U32(0) ELSE U64_add(s[Len(s)].at, s[Len(s)].len)
\* n more bytes can be read at p
Has(s, p, n) == ~U64_lt(StreamLen(s), U64_plus(p, n))
HasLong(s, p, n) == ~U64_lt(StreamLen(s), U64_add(p, n))
ItemAt(s, p) ==
    LET I == {i \in 1..Len(s) : s[i].at = p}
    IN IF I = {} THEN 0 ELSE CHOOSE i \in I : TRUE
\* four bytes read as a ChunkId or a magic: bytes that are not a tag spell
\* no tag the program knows
ReadTag(s, p) ==
    IF ~Has(s, p, 4) THEN [eof |-> TRUE, tag |-> ""]
    ELSE LET i == ItemAt(s, p)
         IN [eof |-> FALSE, tag |-> IF i # 0 /\ s[i].k = "tag" THEN s[i].tag ELSE "????"]
\* four bytes read as a u32: bytes that are not a stored number are zero
ReadU32(s, p) ==
    IF ~Has(s, p, 4) THEN [eof |-> TRUE, num |-> U32(0)]
    ELSE LET i == ItemAt(s, p)
         IN [eof |-> FALSE, num |-> IF i # 0 /\ s[i].k = "u32" THEN s[i].num ELSE U32(0)]
\* RiffChunkHeader read at p
ReadSize(s, p, checks) ==
    LET r == ReadU32(s, p)
        m == RiffChunkHeader_size(r.num, checks)
    IN [eof |-> r.eof, panic |-> ~r.eof /\ m.panic, size |-> m.v]

\* ---- decoded chunks: the record of the lowering with the fields the
\* reader adds
RChunk(tag, size, rtype, sub, obj, hd) ==
    [tag |-> tag, obj |-> obj, hd |-> hd, size |-> size, rtype |-> rtype, sub |-> sub]
NoChunk == RChunk("", U32(0), "", <<>>, NoObject, NoHd)

\* ---- results of a read: a chunk, a chunk list, or a binrw error.  An
\* error carries what is_eof answers if an enum error is an end of file
\* when any of its variants is (any), and if it is when all are (all)
OkChunk(c) == [ok |-> TRUE, chunk |-> c, chunks |-> <<>>, any |-> FALSE, all |-> FALSE]
OkChunks(cs) == [ok |-> TRUE, chunk |-> NoChunk, chunks |-> cs, any |-> FALSE, all |-> FALSE]
ErrRet(any, all) == [ok |-> FALSE, chunk |-> NoChunk, chunks |-> <<>>, any |-> any, all |-> all]
NoRet == OkChunks(<<>>)
\* the error of the RiffChunk enum when the variant whose magic matched
\* failed: the seven other variants report a bad magic
VariantErr(eof) == ErrRet(eof, FALSE)
\* binrw::Error::is_eof
is_eof(e, eof_any) == e.all \/ (eof_any /\ e.any)

\* ---- activation records
Frame(f, buf_size) ==
    [f |-> f, buf_size |-> buf_size, max_pos |-> U32(0), rv |-> <<>>, before |-> U32(0),
     size |-> U32(0), rtype |-> "", obj |-> <<>>, start |-> U32(0), phase |-> ""]
Top == rd_stack[Len(rd_stack)]
Popped == SubSeq(rd_stack, 1, Len(rd_stack) - 1)
ReplaceTop(f) == [rd_stack EXCEPT ![Len(rd_stack)] = f]

\* ---- what a step leaves behind
Calling(pc, pos, stack, buf) ==
    [pc |-> pc, pos |-> pos, stack |-> stack, ret |-> NoRet, res |-> <<>>, buf |-> buf]
Returning(r, pos, stack) ==
    [pc |-> "ret", pos |-> pos, stack |-> stack, ret |-> r, res |-> <<>>, buf |-> rd_buf]
ParseResult(kind, riff_type, sub) == [kind |-> kind, riff_type |-> riff_type, sub |-> sub]
\* a panic: overflow, division by zero, todo!()
Panicking ==
    [pc |-> "done", pos |-> rd_pos, stack |-> rd_stack, ret |-> NoRet,
     res |-> <<ParseResult("panic", "", <<>>)>>, buf |-> rd_buf]
Apply(o) ==
    /\ rd_pc' = o.pc
    /\ rd_pos' = o.pos
    /\ rd_stack' = o.stack
    /\ rd_ret' = o.ret
    /\ rd_res' = o.res
    /\ rd_buf' = o.buf
    /\ UNCHANGED <<rd_stream, rd_checks, rd_eof_any, notRead>>

\* the magic RiffChunk::read_options finds at the position
Magic == ReadTag(rd_stream, rd_pos)
AtChunk(tag) == rd_pc = "chunk" /\ ~Magic.eof /\ Magic.tag = tag
KnownTags == {"RIFF", "LIST", "MxHd", "MxOf", "MxCh", "MxOb", "MxSt", "pad "}

\* RiffChunk::Riff: header, riff_type, then read_chunks(header.size - 4)
Riff_read ==
    LET h == ReadSize(rd_stream, U64_plus(rd_pos, 4), rd_checks)
        t == ReadTag(rd_stream, U64_plus(rd_pos, 8))
        b == U32_sub(h.size, 4, rd_checks)
        start == U64_plus(rd_pos, 12)
    IN IF h.eof THEN Returning(VariantErr(TRUE), rd_pos, rd_stack)
       ELSE IF h.panic THEN Panicking
       ELSE IF t.eof THEN Returning(VariantErr(TRUE), rd_pos, rd_stack)
       ELSE IF b.panic THEN Panicking
       ELSE Calling("chunks", start,
                    rd_stack \o
                    << [Frame("Riff", rd_buf) EXCEPT !.size = h.size, !.rtype = t.tag],
                       [Frame("chunks", rd_buf) EXCEPT
                            !.max_pos = U64_add(start, b.v), !.phase = "loop"] >>,
                    rd_buf)
ReadRiff == AtChunk("RIFF") /\ Apply(Riff_read)

\* RiffChunk::List: the List is read after the magic
ReadListChunk ==
    /\ AtChunk("LIST")
    /\ Apply(Calling("list", U64_plus(rd_pos, 4), rd_stack, rd_buf))

\* RiffChunk::MxHd: header, version, buffer_size, buffer_count
MxHd_read ==
    LET h == ReadSize(rd_stream, U64_plus(rd_pos, 4), rd_checks)
        body == U64_plus(rd_pos, HeaderBytes)
        i == ItemAt(rd_stream, body)
        hd == IF i # 0 /\ rd_stream[i].k = "hd" THEN rd_stream[i].hd ELSE NoHd
    IN IF h.eof THEN Returning(VariantErr(TRUE), rd_pos, rd_stack)
       ELSE IF h.panic THEN Panicking
       ELSE IF ~Has(rd_stream, body, 12) THEN Returning(VariantErr(TRUE), rd_pos, rd_stack)
       ELSE Returning(OkChunk(RChunk("MxHd", h.size, "", <<>>, NoObject, hd)),
                      U64_plus(body, 12), rd_stack)
ReadMxHd == AtChunk("MxHd") /\ Apply(MxHd_read)

\* the bytes `count((header.size as usize - 4) / size_of::<u32>())` takes
MxOf_bytes(size) ==
    LET n == U64_offset(size, -4) IN [hi |-> n.hi, lo |-> n.lo - (n.lo % 4)]
\* RiffChunk::MxOf: header, offset_count, objects.  With header.size < 4 the
\* subtraction panics in a checking build; otherwise it wraps to a count no
\* stream holds, and the read aborts on the allocation or fails at the end
\* of the stream
MxOf_read ==
    LET h == ReadSize(rd_stream, U64_plus(rd_pos, 4), rd_checks)
        body == U64_plus(rd_pos, HeaderBytes)
        objects == U64_plus(body, 4)
    IN IF h.eof THEN {Returning(VariantErr(TRUE), rd_pos, rd_stack)}
       ELSE IF h.panic THEN {Panicking}
       ELSE IF ~Has(rd_stream, body, 4) THEN {Returning(VariantErr(TRUE), rd_pos, rd_stack)}
       ELSE IF h.size.hi = 0 /\ h.size.lo < 4
       THEN IF rd_checks THEN {Panicking}
            ELSE {Panicking, Returning(VariantErr(TRUE), rd_pos, rd_stack)}
       ELSE IF ~HasLong(rd_stream, objects, MxOf_bytes(h.size))
       THEN {Returning(VariantErr(TRUE), rd_pos, rd_stack)}
       ELSE {Returning(OkChunk(RChunk("MxOf", h.size, "", <<>>, NoObject, NoHd)),
                       U64_add(objects, MxOf_bytes(h.size)), rd_stack)}
ReadMxOf == AtChunk("MxOf") /\ \E o \in MxOf_read : Apply(o)

\* RiffChunk::MxCh: header, 14 bytes of fields, header.size - 14 bytes of data
MxCh_read ==
    LET h == ReadSize(rd_stream, U64_plus(rd_pos, 4), rd_checks)
        body == U64_plus(rd_pos, HeaderBytes)
    IN IF h.eof THEN {Returning(VariantErr(TRUE), rd_pos, rd_stack)}
       ELSE IF h.panic THEN {Panicking}
       ELSE IF ~Has(rd_stream, body, 14) THEN {Returning(VariantErr(TRUE), rd_pos, rd_stack)}
       ELSE IF h.size.hi = 0 /\ h.size.lo < 14
       THEN IF rd_checks THEN {Panicking}
            ELSE {Panicking, Returning(VariantErr(TRUE), rd_pos, rd_stack)}
       ELSE IF ~HasLong(rd_stream, body, h.size)
       THEN {Returning(VariantErr(TRUE), rd_pos, rd_stack)}
       ELSE {Returning(OkChunk(RChunk("MxCh", h.size, "", <<>>, NoObject, NoHd)),
                       U64_add(body, h.size), rd_stack)}
ReadMxCh == AtChunk("MxCh") /\ \E o \in MxCh_read : Apply(o)

\* RiffChunk::Pad: header, header.size bytes
Pad_read ==
    LET h == ReadSize(rd_stream, U64_plus(rd_pos, 4), rd_checks)
        body == U64_plus(rd_pos, HeaderBytes)
    IN IF h.eof THEN Returning(VariantErr(TRUE), rd_pos, rd_stack)
       ELSE IF h.panic THEN Panicking
       ELSE IF ~HasLong(rd_stream, body, h.size)
       THEN Returning(VariantErr(TRUE), rd_pos, rd_stack)
       ELSE Returning(OkChunk(RChunk("pad ", h.size, "", <<>>, NoObject, NoHd)),
                      U64_add(body, h.size), rd_stack)
ReadPad == AtChunk("pad ") /\ Apply(Pad_read)

\* RiffChunk::MxOb: the MxOb is read after the magic
ReadMxObChunk ==
    /\ AtChunk("MxOb")
    /\ Apply(Calling("ob", U64_plus(rd_pos, 4), rd_stack, rd_buf))

\* RiffChunk::MxSt: header, the magic "MxOb", then the MxOb
MxSt_read ==
    LET h == ReadSize(rd_stream, U64_plus(rd_pos, 4), rd_checks)
        m == ReadTag(rd_stream, U64_plus(rd_pos, HeaderBytes))
    IN IF h.eof THEN Returning(VariantErr(TRUE), rd_pos, rd_stack)
       ELSE IF h.panic THEN Panicking
       ELSE IF m.eof THEN Returning(VariantErr(TRUE), rd_pos, rd_stack)
       ELSE IF m.tag # "MxOb" THEN Returning(VariantErr(FALSE), rd_pos, rd_stack)
       ELSE Calling("ob", U64_plus(rd_pos, 12),
                    Append(rd_stack, [Frame("St", rd_buf) EXCEPT
                                          !.size = h.size, !.phase = "obj"]),
                    rd_buf)
ReadMxSt == AtChunk("MxSt") /\ Apply(MxSt_read)

\* no variant of RiffChunk matches: the stream ends inside the magic (every
\* variant fails at the end of the file) or the magic is none of the eight
ReadNoVariant ==
    /\ rd_pc = "chunk"
    /\ Magic.eof \/ Magic.tag \notin KnownTags
    /\ Apply(Returning(ErrRet(Magic.eof, Magic.eof), rd_pos, rd_stack))

\* pad_size_to(header.size): the position after a field that began at start
PadSizeTo(start, size, pos) ==
    IF U64_lt(pos, U64_add(start, size)) THEN U64_add(start, size) ELSE pos

\* MxOb: header, then MxObType.  A World or a Presenter ends with the magic
\* "LIST" and a List; the other kinds are fields only.
MxOb_read ==
    LET h == ReadSize(rd_stream, rd_pos, rd_checks)
        start == U64_plus(rd_pos, 4)
        i == ItemAt(rd_stream, start)
        o == rd_stream[i].obj[1]
        fields == U64_add(start, rd_stream[i].len)
        m == ReadTag(rd_stream, fields)
    IN IF h.eof THEN Returning(VariantErr(TRUE), rd_pos, rd_stack)
       ELSE IF h.panic THEN Panicking
       ELSE IF ~Has(rd_stream, start, 2) THEN Returning(VariantErr(TRUE), rd_pos, rd_stack)
       ELSE IF i = 0 \/ rd_stream[i].k # "ob" \/ o.type \notin ObTypes
       THEN Returning(VariantErr(FALSE), rd_pos, rd_stack)
       ELSE IF o.type \notin {"World", "Presenter"}
       THEN Returning(OkChunk(RChunk("MxOb", h.size, "", <<>>, o, NoHd)),
                      PadSizeTo(start, h.size, fields), rd_stack)
       ELSE IF m.eof THEN Returning(VariantErr(TRUE), rd_pos, rd_stack)
       ELSE IF m.tag # "LIST" THEN Returning(VariantErr(FALSE), rd_pos, rd_stack)
       ELSE Calling("list", U64_plus(fields, 4),
                    Append(rd_stack, [Frame("Ob", rd_buf) EXCEPT
                                          !.size = h.size, !.obj = <<o>>, !.start = start]),
                    rd_buf)
ReadMxOb == rd_pc = "ob" /\ Apply(MxOb_read)

\* LISTType and ListCount at p: the bytes they take, what the List takes
\* off header.size, and whether the count is Act (todo!())
ListType_read(s, p) ==
    LET t == ReadTag(s, p)
        lc == ReadTag(s, U64_plus(p, 4))
        n == ReadU32(s, U64_plus(p, 8))
    IN IF t.eof THEN [eof |-> TRUE, rtype |-> "", bytes |-> 0, minus |-> 0, act |-> FALSE]
       ELSE IF t.tag # "MxCh" \/ lc.eof
       THEN [eof |-> FALSE, rtype |-> t.tag, bytes |-> 4, minus |-> 4, act |-> FALSE]
       ELSE IF lc.tag = "Act" /\ ~n.eof
                /\ HasLong(s, U64_plus(p, 12), U64_add(n.num, n.num))
       THEN [eof |-> FALSE, rtype |-> "MxCh", bytes |-> 0, minus |-> 0, act |-> TRUE]
       ELSE IF lc.tag = "RAND" /\ Has(s, U64_plus(p, 8), 8)
       THEN [eof |-> FALSE, rtype |-> "MxCh", bytes |-> 16, minus |-> 8, act |-> FALSE]
       ELSE [eof |-> FALSE, rtype |-> "MxCh", bytes |-> 8, minus |-> 8, act |-> FALSE]

\* List: header, list_type, then read_chunks(header.size - ..)
List_read ==
    LET h == ReadSize(rd_stream, rd_pos, rd_checks)
        lt == ListType_read(rd_stream, U64_plus(rd_pos, 4))
        b == U32_sub(h.size, lt.minus, rd_checks)
        start == U64_plus(rd_pos, 4 + lt.bytes)
    IN IF h.eof THEN Returning(VariantErr(TRUE), rd_pos, rd_stack)
       ELSE IF h.panic THEN Panicking
       ELSE IF lt.eof THEN Returning(VariantErr(TRUE), rd_pos, rd_stack)
       ELSE IF lt.act THEN Panicking
       ELSE IF b.panic THEN Panicking
       ELSE Calling("chunks", start,
                    rd_stack \o
                    << [Frame("List", rd_buf) EXCEPT !.size = h.size, !.rtype = lt.rtype],
                       [Frame("chunks", rd_buf) EXCEPT
                            !.max_pos = U64_add(start, b.v), !.phase = "loop"] >>,
                    rd_buf)
ReadList == rd_pc = "list" /\ Apply(List_read)

\* ---- read_chunks
\* the condition of the while loop
LoopCondition == U64_lt(U64_plus(rd_pos, HeaderBytes), Top.max_pos)

\* one pass through the loop body up to the chunk read: the buffer-edge
\* test, then the skip or the call of RiffChunk::read_options
read_chunks_body ==
    LET f == Top
        before == rd_pos
        a == as_i32(before)
        pos_in_buffer == i32_rem(a, f.buf_size)
        edge == I32_add(pos_in_buffer, HeaderBytes, rd_checks)
        d == I32_sub(f.buf_size, pos_in_buffer, rd_checks)
        target == U64_offset(before, d.v)
    IN IF f.buf_size = 0 \/ (a = I32_MIN /\ f.buf_size = -1) THEN Panicking
       ELSE IF edge.panic THEN Panicking
       ELSE IF edge.v > f.buf_size
       THEN IF d.panic THEN Panicking
            ELSE IF target.hi < 0
            THEN \* seek before the start of the stream: an io error, returned
                 Returning(ErrRet(FALSE, FALSE), before, Popped)
            ELSE Calling("chunks", target, rd_stack, rd_buf)
       ELSE Calling("chunk", before,
                    ReplaceTop([f EXCEPT !.before = before, !.phase = "read"]),
                    f.buf_size)
ChunksIterate ==
    /\ rd_pc = "chunks"
    /\ Top.phase = "loop"
    /\ LoopCondition
    /\ Apply(read_chunks_body)

\* after the loop: seek to max_pos if the position is before it, Ok(rv)
read_chunks_exit ==
    Returning(OkChunks(Top.rv),
              IF U64_lt(rd_pos, Top.max_pos) THEN Top.max_pos ELSE rd_pos,
              Popped)
ChunksExit ==
    /\ rd_pc = "chunks"
    /\ Top.phase = "exit" \/ (Top.phase = "loop" /\ ~LoopCondition)
    /\ Apply(read_chunks_exit)

\* `match chunk`: the reseek, the buffer size of an MxHd, the push; the
\* break at an end of file; the return of any other error.  A failed read
\* leaves the position where the read began.
\* `match chunk` without `buf_size = hd.buffer_size.0`
read_chunks_match_KeepBuf ==
    LET f == Top
        c == rd_ret.chunk
        next == U64_plus(U64_add(f.before, c.size), HeaderBytes)
    IN IF rd_ret.ok
       THEN Calling("chunks",
                    IF U64_lt(rd_pos, next) THEN next ELSE rd_pos,
                    ReplaceTop([f EXCEPT !.rv = Append(f.rv, c), !.phase = "loop"]),
                    rd_buf)
       ELSE IF is_eof(rd_ret, rd_eof_any)
       THEN Calling("chunks", f.before, ReplaceTop([f EXCEPT !.phase = "exit"]), rd_buf)
       ELSE Returning(rd_ret, f.before, Popped)
read_chunks_match ==
    LET f == Top
        c == rd_ret.chunk
        next == U64_plus(U64_add(f.before, c.size), HeaderBytes)
    IN IF rd_ret.ok
       THEN Calling("chunks",
                    IF U64_lt(rd_pos, next) THEN next ELSE rd_pos,
                    ReplaceTop([f EXCEPT
                        !.rv = Append(f.rv, c),
                        !.buf_size = IF c.tag = "MxHd" THEN c.hd.buffer_size ELSE f.buf_size,
                        !.phase = "loop"]),
                    rd_buf)
       ELSE IF is_eof(rd_ret, rd_eof_any)
       THEN Calling("chunks", f.before, ReplaceTop([f EXCEPT !.phase = "exit"]), rd_buf)
       ELSE Returning(rd_ret, f.before, Popped)
ChunksMatch ==
    /\ rd_pc = "ret"
    /\ Top.f = "chunks"
    /\ Apply(read_chunks_match)

\* ---- the readers that were waiting for a chunk list
\* Riff and List: the chunk is complete, or the error of read_chunks is the
\* error of the variant
Container_return(tag) ==
    IF rd_ret.ok
    THEN Returning(OkChunk(RChunk(tag, Top.size, Top.rtype, rd_ret.chunks, NoObject, NoHd)),
                   rd_pos, Popped)
    ELSE Returning(VariantErr(rd_ret.any), rd_pos, Popped)
RiffReturn ==
    /\ rd_pc = "ret"
    /\ Top.f = "Riff"
    /\ Apply(Container_return("RIFF"))
ListReturn ==
    /\ rd_pc = "ret"
    /\ Top.f = "List"
    /\ Apply(Container_return("LIST"))

\* MxWorld / MxPresenter: the list is read, then pad_size_to of MxOb
MxOb_return ==
    IF rd_ret.ok
    THEN Returning(OkChunk(RChunk("MxOb", Top.size, "", <<>>,
                                  [Top.obj[1] EXCEPT !.list = rd_ret.chunk.sub], NoHd)),
                   PadSizeTo(Top.start, Top.size, rd_pos), Popped)
    ELSE Returning(VariantErr(rd_ret.any), rd_pos, Popped)
ObReturn ==
    /\ rd_pc = "ret"
    /\ Top.f = "Ob"
    /\ Apply(MxOb_return)

\* MxSt: after the object the magic "LIST" and the List; after the list the
\* chunk is complete
MxSt_return ==
    LET m == ReadTag(rd_stream, rd_pos)
    IN IF ~rd_ret.ok THEN Returning(VariantErr(rd_ret.any), rd_pos, Popped)
       ELSE IF Top.phase = "obj"
       THEN IF m.eof THEN Returning(VariantErr(TRUE), rd_pos, Popped)
            ELSE IF m.tag # "LIST" THEN Returning(VariantErr(FALSE), rd_pos, Popped)
            ELSE Calling("list", U64_plus(rd_pos, 4),
                         ReplaceTop([Top EXCEPT !.phase = "list", !.obj = <<rd_ret.chunk.obj>>]),
                         Top.buf_size)
       ELSE Returning(OkChunk(RChunk("MxSt", Top.size, "", rd_ret.chunk.sub, Top.obj[1], NoHd)),
                      rd_pos, Popped)
StReturn ==
    /\ rd_pc = "ret"
    /\ Top.f = "St"
    /\ Apply(MxSt_return)

\* ---- Omni::parse
\* `use self::riff::{..}`: the names in scope in omni/mod.rs
Imported == {"ChunkId", "List", "MxHd", "MxOf", "RiffChunk", "OMNI_ID", "RIFF_ID"}
\* the constants of omni/riff/mod.rs
ConstValue(name) ==
    CASE name = "RIFF_ID" -> "RIFF"
      [] name = "OMNI_ID" -> "OMNI"
      [] name = "MXST_ID" -> "MxSt"
\* a pattern that is one identifier: a constant in scope is compared with
\* the value; a name that resolves to nothing is a new binding and matches
\* every value; so does `_`
PatternMatches(pat, v) ==
    IF pat # "_" /\ pat \in Imported THEN v = ConstValue(pat) ELSE TRUE
\* `match root.riff_type { OMNI_ID => {} MXST_ID => {} _ => return Err(NotOmni) }`
RiffTypeArms == << <<"OMNI_ID", "accept">>, <<"MXST_ID", "accept">>, <<"_", "NotOmni">> >>
MatchRiffType(v) ==
    LET i == CHOOSE i \in 1..Len(RiffTypeArms) :
                 /\ PatternMatches(RiffTypeArms[i][1], v)
                 /\ \A j \in 1..(i - 1) : ~PatternMatches(RiffTypeArms[j][1], v)
    IN RiffTypeArms[i][2]

\* Omni::parse with the test of the first three children alone: children
\* after the third are ignored
Omni_parse_Prefix(r) ==
    LET root == r.chunk
    IN IF ~r.ok THEN ParseResult("BinRW", "", <<>>)
       ELSE IF root.tag # "RIFF" THEN ParseResult("NoRiffChunk", "", <<>>)
       ELSE IF MatchRiffType(root.rtype) = "NotOmni"
       THEN ParseResult("NotOmni", root.rtype, <<>>)
       ELSE IF Len(root.sub) < 3 THEN ParseResult("UnknownLayout", "", <<>>)
       ELSE IF <<root.sub[1].tag, root.sub[2].tag, root.sub[3].tag>> # <<"MxHd", "MxOf", "LIST">>
       THEN ParseResult("UnknownLayout", "", <<>>)
       ELSE ParseResult("Ok", root.rtype, SubSeq(root.sub, 1, 3))
Omni_parse(r) ==
    LET root == r.chunk
    IN IF ~r.ok THEN ParseResult("BinRW", "", <<>>)
       ELSE IF root.tag # "RIFF" THEN ParseResult("NoRiffChunk", "", <<>>)
       ELSE IF MatchRiffType(root.rtype) = "NotOmni"
       THEN ParseResult("NotOmni", root.rtype, <<>>)
       ELSE IF Len(root.sub) # 3 THEN ParseResult("UnknownLayout", "", <<>>)
       ELSE IF <<root.sub[1].tag, root.sub[2].tag, root.sub[3].tag>> # <<"MxHd", "MxOf", "LIST">>
       THEN ParseResult("UnknownLayout", "", <<>>)
       ELSE ParseResult("Ok", root.rtype, root.sub)
\* the root chunk has been read, or not: Omni::parse returns
ParseReturn ==
    /\ rd_pc = "ret"
    /\ Top.f = "parse"
    /\ Apply([pc |-> "done", pos |-> rd_pos, stack |-> Popped, ret |-> NoRet,
              res |-> <<Omni_parse(rd_ret)>>, buf |-> rd_buf])

(***************************************************************************)
(* The input streams of SpecRead.                                          *)
(***************************************************************************)
MaxKids == 2
RECURSIVE TotalLen(_)
TotalLen(items) ==
    IF items = <<>> THEN U32(0) ELSE U64_add(Head(items).len, TotalLen(Tail(items)))
RECURSIVE Placed(_, _)
\* the items with their positions, the first one at `at`
Placed(items, at) ==
    IF items = <<>> THEN <<>>
    ELSE <<[Head(items) EXCEPT !.at = at]>> \o Placed(Tail(items), U64_add(at, Head(items).len))

TagItem(t) == <<Item("tag", U32(4), t, U32(0), NoHd, <<>>)>>
U32Item(n) == <<Item("u32", U32(4), "", n, NoHd, <<>>)>>
HdItem(h) == <<Item("hd", U32(12), "", U32(0), h, <<>>)>>
ObItem(o, len) == <<Item("ob", U32(len), "", U32(0), NoHd, <<o>>)>>
BytesItem(len) ==
    IF len = U32(0) THEN <<>> ELSE <<Item("bytes", len, "", U32(0), NoHd, <<>>)>>

\* chunks whose stored length is the length of what follows
BytesChunk(tag, len) == TagItem(tag) \o U32Item(len) \o BytesItem(len)
MxHdBytes(buffer_size) ==
    TagItem("MxHd") \o U32Item(U32(12)) \o HdItem(MxHd(buffer_size, 1))
MxOfBytes == BytesChunk("MxOf", U32(8))
\* an MxHd chunk whose header declares len bytes: the fields take 12
MxHdDeclared(len, buffer_size) ==
    TagItem("MxHd") \o U32Item(U32(len)) \o HdItem(MxHd(buffer_size, 1))
        \o (IF len > 12 THEN BytesItem(U32(len - 12)) ELSE <<>>)
WithHeader(tag, body) == TagItem(tag) \o U32Item(TotalLen(body)) \o body
ListBytes(list_type, kids) == WithHeader("LIST", list_type \o kids)
RiffBytes(riff_type, kids) == WithHeader("RIFF", TagItem(riff_type) \o kids)
ObFieldsLen == 24
MxObBytes(o) == WithHeader("MxOb", ObItem(o, ObFieldsLen))
PresenterBytes(o, kids) ==
    WithHeader("MxOb", ObItem(o, ObFieldsLen) \o ListBytes(TagItem("MxOb"), kids))
MxStBytes(o, kids) ==
    WithHeader("MxSt", MxObBytes(o) \o ListBytes(TagItem("MxDa"), kids))

\* list types: Other, Count, Rand, Act
ListTypeOther == TagItem("MxDa")
ListTypeCount == TagItem("MxCh") \o U32Item(U32(1))
ListTypeRand == TagItem("MxCh") \o TagItem("RAND") \o BytesItem(U32(8))
ListTypeAct == TagItem("MxCh") \o TagItem("Act") \o U32Item(U32(2)) \o BytesItem(U32(4))

Kids ==
    { BytesItem(U32(4)),
      BytesChunk("pad ", U32(8)),
      BytesChunk("MxCh", U32(16)),
      BytesChunk("JUNK", U32(4)),
      BytesChunk("JUNK", U32(0)),
      BytesChunk("pad ", U32(0)),
      MxObBytes(Ob("Sound", 1)),
      PresenterBytes(Ob("Presenter", 2), MxObBytes(Ob("Bitmap", 1))),
      MxStBytes(Ob("Object", 3), BytesChunk("MxCh", U32(16))) }
KidLists == { Concat(q) : q \in SeqsUpTo(Kids, MaxKids) }
BufSizes == {DefaultBufSize, 32, 16, 4, 0, -16}
Container(riff_type, buffer_size, list_type, kids) ==
    RiffBytes(riff_type, MxHdBytes(buffer_size) \o MxOfBytes \o ListBytes(list_type, kids))
Containers ==
    { Container(t, DefaultBufSize, ListTypeOther, k) :
          t \in {"OMNI", "MxSt", "WAVE"}, k \in KidLists }
    \cup { Container("OMNI", b, lt, k) :
          b \in BufSizes, lt \in {ListTypeOther, ListTypeCount}, k \in KidLists }
    \cup { Container("OMNI", DefaultBufSize, lt, k) :
          lt \in {ListTypeRand, ListTypeAct}, k \in KidLists }
Sound1 == MxObBytes(Ob("Sound", 1))
\* containers larger than 2^31 bytes: the list begins with a pad chunk that
\* starts at 64 and ends 28 bytes after 2^31
FarPadLen == [hi |-> (Limb \div 2) - 1, lo |-> Limb - 44]
FarContainers ==
    { Container("OMNI", b, ListTypeCount, BytesChunk("pad ", FarPadLen) \o k) :
          b \in {DefaultBufSize, 32},
          k \in {<<>>, Sound1, BytesItem(U32(4)) \o Sound1} }
\* other layouts of the wrapper, and streams that are no wrapper
OtherLayouts ==
    { RiffBytes(t, kids) :
        t \in {"OMNI", "WAVE"},
        kids \in { MxHdBytes(DefaultBufSize) \o MxOfBytes \o ListBytes(ListTypeOther, <<>>)
                       \o BytesChunk("pad ", U32(8)),
                   MxHdBytes(DefaultBufSize) \o ListBytes(ListTypeOther, Sound1),
                   MxOfBytes \o MxHdBytes(DefaultBufSize) \o ListBytes(ListTypeOther, Sound1),
                   MxHdBytes(DefaultBufSize) \o MxOfBytes \o Sound1,
                   MxHdBytes(DefaultBufSize) \o MxOfBytes
                       \o RiffBytes("OMNI", BytesChunk("pad ", U32(8))),
                   BytesChunk("MxOf", U32(2)) \o BytesChunk("MxCh", U32(4)),
                   MxHdDeclared(4, DefaultBufSize) \o MxOfBytes
                       \o ListBytes(ListTypeOther, Sound1),
                   MxHdDeclared(16, DefaultBufSize) \o MxOfBytes
                       \o ListBytes(ListTypeOther, Sound1) } }
    \cup { ListBytes(ListTypeOther, Sound1), BytesChunk("pad ", U32(8)),
           BytesChunk("JUNK", U32(8)), Sound1, <<>> }
\* containers with buffer size 32 whose list holds, behind a pad chunk, an
\* object with an embedded header 28 bytes into a buffer: the MxOb of an MxSt
\* at 92, the LIST of an MxSt at 92, the LIST of a Presenter at 124
EdgeContainers ==
    { Container("OMNI", 32, ListTypeCount, BytesChunk("pad ", U32(n[1])) \o n[2]) :
        n \in { <<12, MxStBytes(Ob("Object", 3), BytesChunk("MxCh", U32(16)))>>,
                <<0, WithHeader("MxSt", WithHeader("MxOb", ObItem(Ob("Object", 3), 4))
                                           \o ListBytes(TagItem("MxDa"), Sound1))>>,
                <<16, WithHeader("MxOb", ObItem(Ob("Presenter", 2), 28)
                                            \o ListBytes(TagItem("MxOb"), Sound1))>> } }
\* a stream cut short after n of its items
Truncations(items) == { SubSeq(items, 1, n) : n \in 0..Len(items) }
Streams ==
    Containers \cup FarContainers \cup OtherLayouts \cup EdgeContainers
    \cup Truncations(Container("OMNI", 32, ListTypeCount,
                               MxStBytes(Ob("Object", 3), BytesChunk("MxCh", U32(16)))
                               \o PresenterBytes(Ob("Presenter", 2), Sound1)))

(***************************************************************************)
(* The specifications.                                                     *)
(***************************************************************************)
LowerInit ==
    /\ lw_in \in LowerChunks
    /\ lw_top \in BOOLEAN
    /\ lw_out = <<>>
    \* the other parts of the program are idle
    /\ omni = <<>> /\ tpc = "idle" /\ index = 0 /\ pending = <<>>
    /\ settings = <<>> /\ blocks = <<>> /\ inserted = <<>> /\ rendered = <<>>
    /\ hd_raw = U32(0) /\ hd_checks = FALSE /\ hd_size = <<>>
    /\ chars = <<>> /\ rv = <<>> /\ previous_state = "Expecting" /\ state = "Expecting"
    /\ pp_index = 0 /\ line = 0 /\ column = 0 /\ definitions = <<>>
    /\ directive_buf = <<>> /\ directive = "Define" /\ directive_parameter_buf = <<>>
    /\ directive_parameter_delimiter = "\"" /\ directive_line = 0
    /\ directive_column = 0 /\ pp_res = <<>>
    /\ rd_stream = <<>> /\ rd_checks = FALSE /\ rd_eof_any = FALSE /\ rd_pos = U32(0)
    /\ rd_pc = "idle" /\ rd_buf = 0 /\ rd_stack = <<>> /\ rd_ret = <<>> /\ rd_res = <<>>
    /\ pr_file = <<>> /\ pr_sort = "tail" /\ pr_bulk = TRUE /\ pr_pc = "idle"
    /\ pr_vec = <<>> /\ pr_settings = <<>> /\ pr_map = <<>>
    /\ vl_def = <<>> /\ vl_pc = "idle" /\ vl_text = <<>> /\ vl_parsed = <<>>
LowerNext == Lower
SpecLower == LowerInit /\ [][LowerNext]_vars

TextNext ==
    \/ FromOmniStart
    \/ FromOmniLower
    \/ FromOmniInsert
    \/ FromOmniReturn
    \/ Collect
TextInit ==
    /\ \E h \in TextHeads, s \in SeqsUpTo(TextChunks, MaxStreams) :
           omni = [header |-> h[1], offsets |-> h[2], streams |-> s]
    /\ tpc = "start"
    /\ index = 0
    /\ pending = <<>>
    /\ settings = <<>>
    /\ blocks = <<>>
    /\ inserted = <<>>
    /\ rendered = <<>>
    \* the other parts of the program are idle
    /\ lw_in = <<>> /\ lw_top = FALSE /\ lw_out = <<>>
    /\ hd_raw = U32(0) /\ hd_checks = FALSE /\ hd_size = <<>>
    /\ chars = <<>> /\ rv = <<>> /\ previous_state = "Expecting" /\ state = "Expecting"
    /\ pp_index = 0 /\ line = 0 /\ column = 0 /\ definitions = <<>>
    /\ directive_buf = <<>> /\ directive = "Define" /\ directive_parameter_buf = <<>>
    /\ directive_parameter_delimiter = "\"" /\ directive_line = 0
    /\ directive_column = 0 /\ pp_res = <<>>
    /\ rd_stream = <<>> /\ rd_checks = FALSE /\ rd_eof_any = FALSE /\ rd_pos = U32(0)
    /\ rd_pc = "idle" /\ rd_buf = 0 /\ rd_stack = <<>> /\ rd_ret = <<>> /\ rd_res = <<>>
    /\ pr_file = <<>> /\ pr_sort = "tail" /\ pr_bulk = TRUE /\ pr_pc = "idle"
    /\ pr_vec = <<>> /\ pr_settings = <<>> /\ pr_map = <<>>
    /\ vl_def = <<>> /\ vl_pc = "idle" /\ vl_text = <<>> /\ vl_parsed = <<>>
SpecText == TextInit /\ [][TextNext]_vars

HeaderInit ==
    /\ hd_raw \in HeaderRaws
    /\ hd_checks \in BOOLEAN
    /\ hd_size = <<>>
    \* the other parts of the program are idle
    /\ lw_in = <<>> /\ lw_top = FALSE /\ lw_out = <<>>
    /\ omni = <<>> /\ tpc = "idle" /\ index = 0 /\ pending = <<>>
    /\ settings = <<>> /\ blocks = <<>> /\ inserted = <<>> /\ rendered = <<>>
    /\ chars = <<>> /\ rv = <<>> /\ previous_state = "Expecting" /\ state = "Expecting"
    /\ pp_index = 0 /\ line = 0 /\ column = 0 /\ definitions = <<>>
    /\ directive_buf = <<>> /\ directive = "Define" /\ directive_parameter_buf = <<>>
    /\ directive_parameter_delimiter = "\"" /\ directive_line = 0
    /\ directive_column = 0 /\ pp_res = <<>>
    /\ rd_stream = <<>> /\ rd_checks = FALSE /\ rd_eof_any = FALSE /\ rd_pos = U32(0)
    /\ rd_pc = "idle" /\ rd_buf = 0 /\ rd_stack = <<>> /\ rd_ret = <<>> /\ rd_res = <<>>
    /\ pr_file = <<>> /\ pr_sort = "tail" /\ pr_bulk = TRUE /\ pr_pc = "idle"
    /\ pr_vec = <<>> /\ pr_settings = <<>> /\ pr_map = <<>>
    /\ vl_def = <<>> /\ vl_pc = "idle" /\ vl_text = <<>> /\ vl_parsed = <<>>
HeaderNext == ReadHeader
SpecHeader == HeaderInit /\ [][HeaderNext]_vars

PreNext ==
    \/ PreCarriageReturn
    \/ PreExpecting
    \/ PreSlash
    \/ PreSkipLine
    \/ PreSkipComment
    \/ PreEndComment
    \/ PreDirective
    \/ PreDirectiveParameter
    \/ PreDirectiveString
    \/ PreEnd
PreInit ==
    /\ chars \in PreInputs
    /\ rv = <<>>
    /\ previous_state = "Expecting"
    /\ state = "Expecting"
    /\ pp_index = 0
    /\ line = 0
    /\ column = 0
    /\ definitions = <<>>
    /\ directive_buf = <<>>
    /\ directive = "Define"
    /\ directive_parameter_buf = <<>>
    /\ directive_parameter_delimiter = "\""
    /\ directive_line = 0
    /\ directive_column = 0
    /\ pp_res = <<>>
    \* the other parts of the program are idle
    /\ lw_in = <<>> /\ lw_top = FALSE /\ lw_out = <<>>
    /\ omni = <<>> /\ tpc = "idle" /\ index = 0 /\ pending = <<>>
    /\ settings = <<>> /\ blocks = <<>> /\ inserted = <<>> /\ rendered = <<>>
    /\ hd_raw = U32(0) /\ hd_checks = FALSE /\ hd_size = <<>>
    /\ rd_stream = <<>> /\ rd_checks = FALSE /\ rd_eof_any = FALSE /\ rd_pos = U32(0)
    /\ rd_pc = "idle" /\ rd_buf = 0 /\ rd_stack = <<>> /\ rd_ret = <<>> /\ rd_res = <<>>
    /\ pr_file = <<>> /\ pr_sort = "tail" /\ pr_bulk = TRUE /\ pr_pc = "idle"
    /\ pr_vec = <<>> /\ pr_settings = <<>> /\ pr_map = <<>>
    /\ vl_def = <<>> /\ vl_pc = "idle" /\ vl_text = <<>> /\ vl_parsed = <<>>
SpecPre == PreInit /\ [][PreNext]_vars

ReadNext ==
    \/ ReadRiff
    \/ ReadListChunk
    \/ ReadMxHd
    \/ ReadMxOf
    \/ ReadMxCh
    \/ ReadPad
    \/ ReadMxObChunk
    \/ ReadMxSt
    \/ ReadNoVariant
    \/ ReadMxOb
    \/ ReadList
    \/ ChunksIterate
    \/ ChunksExit
    \/ ChunksMatch
    \/ RiffReturn
    \/ ListReturn
    \/ ObReturn
    \/ StReturn
    \/ ParseReturn
\* Omni::parse is about to call RiffChunk::read_args(stream, 0x10000)
ReadInit ==
    /\ \E s \in Streams : rd_stream = Placed(s, U32(0))
    /\ rd_checks \in BOOLEAN
    /\ rd_eof_any \in BOOLEAN
    /\ rd_pos = U32(0)
    /\ rd_pc = "chunk"
    /\ rd_buf = DefaultBufSize
    /\ rd_stack = <<Frame("parse", DefaultBufSize)>>
    /\ rd_ret = NoRet
    /\ rd_res = <<>>
    \* the other parts of the program are idle
    /\ lw_in = <<>> /\ lw_top = FALSE /\ lw_out = <<>>
    /\ omni = <<>> /\ tpc = "idle" /\ index = 0 /\ pending = <<>>
    /\ settings = <<>> /\ blocks = <<>> /\ inserted = <<>> /\ rendered = <<>>
    /\ hd_raw = U32(0) /\ hd_checks = FALSE /\ hd_size = <<>>
    /\ chars = <<>> /\ rv = <<>> /\ previous_state = "Expecting" /\ state = "Expecting"
    /\ pp_index = 0 /\ line = 0 /\ column = 0 /\ definitions = <<>>
    /\ directive_buf = <<>> /\ directive = "Define" /\ directive_parameter_buf = <<>>
    /\ directive_parameter_delimiter = "\"" /\ directive_line = 0
    /\ directive_column = 0 /\ pp_res = <<>>
    /\ pr_file = <<>> /\ pr_sort = "tail" /\ pr_bulk = TRUE /\ pr_pc = "idle"
    /\ pr_vec = <<>> /\ pr_settings = <<>> /\ pr_map = <<>>
    /\ vl_def = <<>> /\ vl_pc = "idle" /\ vl_text = <<>> /\ vl_parsed = <<>>
SpecRead == ReadInit /\ [][ReadNext]_vars

(***************************************************************************)
(* SpecParse: the closure Text::parser maps over the parsed blocks         *)
(* (text/parser.rs): sort_by, pop, BTreeMap::from_iter.                    *)
(***************************************************************************)
MaxBlocks == 3

\* the blocks Block::parser yields: `id: 0`, one of the block types, a name
ParsedBlocks ==
    { Block(0, t, n, FALSE, <<>>) :
        t \in {"defineSettings", "defineObject", "defineSound"}, n \in {"a", "b"} }
ParsedFiles == SeqsUpTo(ParsedBlocks, MaxBlocks)

\* mutant: the closure orders every block before the other, settings or not
Text_parser_compare_Plain(a, b) == "Less"

\* the closure handed to sort_by: its second argument is not looked at
Text_parser_compare(a, b) ==
    IF a.block_type = "defineSettings" THEN "Greater" ELSE "Less"

\* sort_by's `is_less`: |a, b| compare(a, b) == Less
is_less(a, b) == Text_parser_compare(a, b) = "Less"

\* slice::sort_by on a short slice is an insertion sort, and which element
\* the comparison receives first depends on the build's library.
\* insert_head: the first element moves right past the elements that follow
\* it for as long as is_less(that element, it)
insert_head(v) ==
    IF Len(v) >= 2 /\ is_less(v[2], v[1])
    THEN LET k == CHOOSE j \in 2..Len(v) :
                      /\ \A i \in 2..j : is_less(v[i], v[1])
                      /\ (j < Len(v) => ~is_less(v[j + 1], v[1]))
         IN SubSeq(v, 2, k) \o <<v[1]>> \o SubSeq(v, k + 1, Len(v))
    ELSE v
\* `for i in (0..len - 1).rev() { insert_head(&mut v[i..]) }`
RECURSIVE sort_from_right(_, _)
sort_from_right(v, i) ==
    IF i < 1 THEN v
    ELSE sort_from_right(SubSeq(v, 1, i - 1) \o insert_head(SubSeq(v, i, Len(v))), i - 1)

\* insert_tail: the last element moves left past the elements before it for
\* as long as is_less(it, that element)
insert_tail(v) ==
    LET n == Len(v)
    IN IF n >= 2 /\ is_less(v[n], v[n - 1])
       THEN LET k == CHOOSE j \in 1..(n - 1) :
                         /\ \A i \in j..(n - 1) : is_less(v[n], v[i])
                         /\ (j > 1 => ~is_less(v[n], v[j - 1]))
            IN SubSeq(v, 1, k - 1) \o <<v[n]>> \o SubSeq(v, k, n - 1)
       ELSE v
\* `for i in 1..len { insert_tail(&mut v[..=i]) }`
RECURSIVE sort_from_left(_, _)
sort_from_left(v, i) ==
    IF i > Len(v) THEN v
    ELSE sort_from_left(insert_tail(SubSeq(v, 1, i)) \o SubSeq(v, i + 1, Len(v)), i + 1)

\* blocks.sort_by(..)
sort_by(v, build) ==
    IF build = "head" THEN sort_from_right(v, Len(v) - 1) ELSE sort_from_left(v, 2)

\* the iterator handed to from_iter: enumerate() and the key of each block
KeyedBlocks(v) ==
    [i \in 1..Len(v) |->
        [key |-> SortingId_from_id_index(v[i].block_type, 0, <<>>, i - 1, 0, 0),
         value |-> v[i]]]

\* `inputs.sort_by(|a, b| a.0.cmp(&b.0))`: stable, an entry moves left past
\* the entries whose key is Greater than its own
RECURSIVE sort_by_key(_, _)
sort_by_key(e, i) ==
    IF i > Len(e) THEN e
    ELSE LET n == Cardinality({j \in 1..(i - 1) :
                      \A l \in j..(i - 1) : SortingId_cmp(e[i].key, e[l].key) = "Less"})
         IN sort_by_key(SubSeq(e, 1, i - 1 - n) \o <<e[i]>> \o SubSeq(e, i - n, i - 1)
                            \o SubSeq(e, i + 1, Len(e)), i + 1)

\* the bulk build drops an entry when the key of the next one is `==` to its
\* own (the derived PartialEq of SortingId, which compares every field)
DedupSorted(e) ==
    LET keep == {i \in 1..Len(e) : i = Len(e) \/ e[i].key # e[i + 1].key}
        RECURSIVE pick(_)
        pick(i) == IF i > Len(e) THEN <<>>
                   ELSE (IF i \in keep THEN <<e[i]>> ELSE <<>>) \o pick(i + 1)
    IN pick(1)

\* a library that inserts the pairs one by one
RECURSIVE InsertAll(_, _)
InsertAll(m, e) ==
    IF e = <<>> THEN m
    ELSE InsertAll(BTreeMap_insert(m, Head(e).key, Head(e).value), Tail(e))

\* BTreeMap::from_iter
BTreeMap_from_iter(e, bulk) ==
    IF bulk THEN DedupSorted(sort_by_key(e, 2)) ELSE InsertAll(<<>>, e)

\* blocks.sort_by(|a, _| ..)
ParseSort ==
    /\ pr_pc = "sort"
    /\ pr_vec' = sort_by(pr_vec, pr_sort)
    /\ pr_pc' = "pop"
    /\ UNCHANGED <<pr_file, pr_sort, pr_bulk, pr_settings, pr_map>>
    /\ UNCHANGED notParse

\* let settings = blocks.pop().unwrap();
ParsePop ==
    /\ pr_pc = "pop"
    /\ IF pr_vec = <<>>
       THEN pr_pc' = "panic" /\ UNCHANGED <<pr_vec, pr_settings>>
       ELSE /\ pr_settings' = pr_vec[Len(pr_vec)]
            /\ pr_vec' = SubSeq(pr_vec, 1, Len(pr_vec) - 1)
            /\ pr_pc' = "build"
    /\ UNCHANGED <<pr_file, pr_sort, pr_bulk, pr_map>>
    /\ UNCHANGED notParse

\* Self { settings, blocks: BTreeMap::from_iter(blocks.into_iter().enumerate().map(..)) }
ParseBuild ==
    /\ pr_pc = "build"
    /\ pr_map' = BTreeMap_from_iter(KeyedBlocks(pr_vec), pr_bulk)
    /\ pr_vec' = <<>>
    /\ pr_pc' = "done"
    /\ UNCHANGED <<pr_file, pr_sort, pr_bulk, pr_settings>>
    /\ UNCHANGED notParse

ParseInit ==
    /\ pr_file \in ParsedFiles
    /\ pr_sort \in {"head", "tail"}
    /\ pr_bulk \in BOOLEAN
    /\ pr_pc = "sort"
    /\ pr_vec = pr_file
    /\ pr_settings = <<>>
    /\ pr_map = <<>>
    \* the other parts of the program are idle
    /\ lw_in = <<>> /\ lw_top = FALSE /\ lw_out = <<>>
    /\ omni = <<>> /\ tpc = "idle" /\ index = 0 /\ pending = <<>>
    /\ settings = <<>> /\ blocks = <<>> /\ inserted = <<>> /\ rendered = <<>>
    /\ hd_raw = U32(0) /\ hd_checks = FALSE /\ hd_size = <<>>
    /\ chars = <<>> /\ rv = <<>> /\ previous_state = "Expecting" /\ state = "Expecting"
    /\ pp_index = 0 /\ line = 0 /\ column = 0 /\ definitions = <<>>
    /\ directive_buf = <<>> /\ directive = "Define" /\ directive_parameter_buf = <<>>
    /\ directive_parameter_delimiter = "\"" /\ directive_line = 0
    /\ directive_column = 0 /\ pp_res = <<>>
    /\ rd_stream = <<>> /\ rd_checks = FALSE /\ rd_eof_any = FALSE /\ rd_pos = U32(0)
    /\ rd_pc = "idle" /\ rd_buf = 0 /\ rd_stack = <<>> /\ rd_ret = <<>> /\ rd_res = <<>>
    /\ vl_def = <<>> /\ vl_pc = "idle" /\ vl_text = <<>> /\ vl_parsed = <<>>
ParseNext == ParseSort \/ ParsePop \/ ParseBuild
SpecParse == ParseInit /\ [][ParseNext]_vars

(***************************************************************************)
(* SpecValue: a Definition written by its Display (text/mod.rs) and read   *)
(* back by RValue::parser (text/parser.rs).  Texts are sequences of        *)
(* one-character strings.                                                  *)
(***************************************************************************)
MaxValue == 20

Digits == <<"0", "1", "2", "3", "4", "5", "6", "7", "8", "9">>
IsDigit(c) == \E d \in 1..10 : Digits[d] = c
DigitValue(c) == (CHOOSE d \in 1..10 : Digits[d] = c) - 1
\* Display for a non-negative integer
RECURSIVE Decimal(_)
Decimal(n) == IF n < 10 THEN <<Digits[n + 1]>> ELSE Decimal(n \div 10) \o <<Digits[(n % 10) + 1]>>
\* Display for i32
i32_fmt(n) == IF n < 0 THEN <<"-">> \o Decimal(-n) ELSE Decimal(n)

\* impl Display for LoopingMethod, PaletteManagement, Transparency
Keyword(d, v) ==
    CASE d = "LoopingMethod" /\ v = "Cache" -> <<"C", "A", "C", "H", "E">>
      [] d = "LoopingMethod" /\ v = "None" -> <<"N", "O", "N", "E">>
      [] d = "LoopingMethod" /\ v = "Stream" -> <<"S", "T", "R", "E", "A", "M">>
      [] d = "PaletteManagement" /\ v = "None" -> <<"N", "O", "N", "E">>
      [] d = "Transparency" /\ v = "Yes" -> <<"Y", "E", "S">>
      [] d = "Transparency" /\ v = "Fast" -> <<"F", "A", "S", "T">>
Indefinite == <<"I", "N", "D", "E", "F", "I", "N", "I", "T", "E">>
\* impl Display for Duration: INDEFINITE for -1, the number otherwise
Duration_fmt(n) == IF n = -1 THEN Indefinite ELSE i32_fmt(n)
\* impl Display for Definition
Definition_fmt(def) ==
    IF def.d = "Duration" THEN Duration_fmt(def.v) ELSE Keyword(def.d, def.v)

\* the result of a parser: the value and the text left, or a failure
Parsed(value, rest) == [ok |-> TRUE, value |-> value, rest |-> rest]
NoParse == [ok |-> FALSE, value |-> <<>>, rest |-> <<>>]
\* just(word).to(value)
Just(word, value, t) ==
    IF Len(t) >= Len(word) /\ SubSeq(t, 1, Len(word)) = word
    THEN Parsed(value, SubSeq(t, Len(word) + 1, Len(t)))
    ELSE NoParse
\* choice: the first parser of the tuple that succeeds
RECURSIVE Choice(_)
Choice(results) ==
    IF results = <<>> THEN NoParse
    ELSE IF Head(results).ok THEN Head(results) ELSE Choice(Tail(results))

\* the number of digits the text begins with
RECURSIVE LeadingDigits(_)
LeadingDigits(t) ==
    IF t # <<>> /\ IsDigit(Head(t)) THEN 1 + LeadingDigits(Tail(t)) ELSE 0
RECURSIVE DecimalValue(_)
DecimalValue(ds) ==
    IF ds = <<>> THEN 0 ELSE 10 * DecimalValue(SubSeq(ds, 1, Len(ds) - 1)) + DigitValue(ds[Len(ds)])
\* integer(): an optional `-`, then text::int(10) (a single 0, or digits that
\* begin with another digit), the slice parsed as i32
integer(t) ==
    LET neg == t # <<>> /\ Head(t) = "-"
        body == IF neg THEN Tail(t) ELSE t
        n == IF body # <<>> /\ Head(body) = "0" THEN 1 ELSE LeadingDigits(body)
        v == DecimalValue(SubSeq(body, 1, n))
    IN IF n = 0 THEN NoParse
       ELSE Parsed(IF neg THEN -v ELSE v, SubSeq(body, n + 1, Len(body)))

\* string(): the characters between two double quotes
string(t) ==
    IF t # <<>> /\ Head(t) = "\"" /\ \E i \in 2..Len(t) : t[i] = "\""
    THEN LET e == CHOOSE i \in 2..Len(t) : t[i] = "\"" /\ \A j \in 2..(i - 1) : t[j] # "\""
         IN Parsed(SubSeq(t, 2, e - 1), SubSeq(t, e + 1, Len(t)))
    ELSE NoParse

\* Vec3::parser and Function::parser need a parenthesis, after blanks for
\* the first and after an identifier for the second; a text without one is
\* refused by both (the texts of this specification hold none)
HasParenthesis(t) == \E i \in 1..Len(t) : t[i] = "("
Vec3_parser(t) == IF HasParenthesis(t) THEN Parsed(RVec3(<<>>), <<>>) ELSE NoParse
Function_parser(t) ==
    IF HasParenthesis(t) THEN Parsed([t |-> "Function", v |-> <<>>], <<>>) ELSE NoParse

\* the result of a parser with its value mapped through a constructor
MapTo(r, value) == IF r.ok THEN Parsed(value, r.rest) ELSE NoParse

\* LoopingMethod::parser
LoopingMethod_parser(t) ==
    Choice(<< Just(Keyword("LoopingMethod", "Cache"), "Cache", t),
              Just(Keyword("LoopingMethod", "None"), "None", t),
              Just(Keyword("LoopingMethod", "Stream"), "Stream", t) >>)
\* Duration::parser
Duration_parser(t) == Choice(<< Just(Indefinite, -1, t), integer(t) >>)
\* PaletteManagement::parser
PaletteManagement_parser(t) ==
    Choice(<< Just(Keyword("PaletteManagement", "None"), "None", t) >>)
\* Transparency::parser
Transparency_parser(t) ==
    Choice(<< Just(Keyword("Transparency", "Yes"), "Yes", t),
              Just(Keyword("Transparency", "Fast"), "Fast", t) >>)

\* one alternative of Definition::parser: the parser, mapped to its variant
Variant(d, r) == IF r.ok THEN Parsed(RDefinition(d, r.value), r.rest) ELSE NoParse
\* Definition::parser
Definition_parser(t) ==
    Choice(<< Variant("LoopingMethod", LoopingMethod_parser(t)),
              Variant("Duration", Duration_parser(t)),
              Variant("PaletteManagement", PaletteManagement_parser(t)),
              Variant("Transparency", Transparency_parser(t)) >>)

\* RValue::parser
RValue_parser(t) ==
    Choice(<< (IF string(t).ok THEN Parsed(RString(string(t).value), string(t).rest)
               ELSE NoParse),
              (IF integer(t).ok THEN Parsed(RInteger(integer(t).value), integer(t).rest)
               ELSE NoParse),
              Vec3_parser(t),
              Definition_parser(t),
              Function_parser(t) >>)

\* the Definition values, as a sequence (their values are words for some
\* variants and numbers for Duration)
Definitions ==
    << RDefinition("LoopingMethod", "Cache"), RDefinition("LoopingMethod", "None"),
       RDefinition("LoopingMethod", "Stream"), RDefinition("PaletteManagement", "None"),
       RDefinition("Transparency", "Yes"), RDefinition("Transparency", "Fast") >>
    \o [n \in 1..(2 * MaxValue + 1) |-> RDefinition("Duration", n - MaxValue - 1)]

\* derived PartialEq of RValue, for an integer or a Definition
RValue_eq(a, b) ==
    /\ a.t = b.t
    /\ a.t = "Definition" => a.d = b.d /\ a.v = b.v
    /\ a.t = "Integer" => a.v = b.v

\* write!(f, "{d}") for the Definition
ValueFmt ==
    /\ vl_pc = "fmt"
    /\ vl_text' = Definition_fmt(vl_def)
    /\ vl_pc' = "parse"
    /\ UNCHANGED <<vl_def, vl_parsed, notValue>>

\* RValue::parser() on the text
ValueParse ==
    /\ vl_pc = "parse"
    /\ vl_parsed' = <<RValue_parser(vl_text)>>
    /\ vl_pc' = "done"
    /\ UNCHANGED <<vl_def, vl_text, notValue>>

ValueInit ==
    /\ \E i \in 1..Len(Definitions) : vl_def = Definitions[i]
    /\ vl_pc = "fmt"
    /\ vl_text = <<>>
    /\ vl_parsed = <<>>
    \* the other parts of the program are idle
    /\ lw_in = <<>> /\ lw_top = FALSE /\ lw_out = <<>>
    /\ omni = <<>> /\ tpc = "idle" /\ index = 0 /\ pending = <<>>
    /\ settings = <<>> /\ blocks = <<>> /\ inserted = <<>> /\ rendered = <<>>
    /\ hd_raw = U32(0) /\ hd_checks = FALSE /\ hd_size = <<>>
    /\ chars = <<>> /\ rv = <<>> /\ previous_state = "Expecting" /\ state = "Expecting"
    /\ pp_index = 0 /\ line = 0 /\ column = 0 /\ definitions = <<>>
    /\ directive_buf = <<>> /\ directive = "Define" /\ directive_parameter_buf = <<>>
    /\ directive_parameter_delimiter = "\"" /\ directive_line = 0
    /\ directive_column = 0 /\ pp_res = <<>>
    /\ rd_stream = <<>> /\ rd_checks = FALSE /\ rd_eof_any = FALSE /\ rd_pos = U32(0)
    /\ rd_pc = "idle" /\ rd_buf = 0 /\ rd_stack = <<>> /\ rd_ret = <<>> /\ rd_res = <<>>
    /\ pr_file = <<>> /\ pr_sort = "tail" /\ pr_bulk = TRUE /\ pr_pc = "idle"
    /\ pr_vec = <<>> /\ pr_settings = <<>> /\ pr_map = <<>>
ValueNext == ValueFmt \/ ValueParse
SpecValue == ValueInit /\ [][ValueNext]_vars




(***************************************************************************)
(* Claims about the lowering and Text::from_omni.                          *)
(***************************************************************************)
\* the blocks chunk number i of the top-level list hands to blocks.insert
LoweredOf(i) ==
    LET r == RiffChunk_to_block(omni.streams[i], TRUE)
    IN IF r.panic \/ r.block = <<>> THEN <<>> ELSE r.block \o r.before \o r.after
RECURSIVE LoweredUpTo(_)
LoweredUpTo(n) == IF n = 0 THEN <<>> ELSE LoweredUpTo(n - 1) \o LoweredOf(n)
IdsOf(q) == {q[i].id : i \in 1..Len(q)}

\* C1 (as claimed): from_omni followed by rendering never aborts, whatever the
\* chunk kinds of the lists and whatever the flag bits of the objects.
C1_NeverAborts == tpc # "panic"

\* C2 (as claimed): the built text holds one block per chunk of the top-level
\* list: the size of the ordered collection is the number of top-level chunks.
C2_OneBlockPerChunk ==
    tpc \in {"built", "rendered"} => Len(blocks) = Len(omni.streams)

\* C2 (amended): the built text holds one settings block, of type
\* defineSettings, and the ordered collection holds exactly one block per
\* distinct identifier among the blocks lowered from the top-level chunks (the
\* primary block of each chunk and its blocks_before); the count is that of the
\* top-level chunks when each chunk lowers to its primary block alone and the
\* identifiers are pairwise distinct.
C2_OneBlockPerId ==
    tpc \in {"built", "rendered"} =>
        LET all == LoweredUpTo(Len(omni.streams))
        IN /\ Len(settings) = 1
           /\ settings[1].block_type = "defineSettings"
           /\ Len(blocks) = Cardinality(IdsOf(all))
           /\ IdsOf(BTreeMap_values(blocks)) = IdsOf(all)
           /\ ( /\ \A i \in 1..Len(omni.streams) : Len(LoweredOf(i)) = 1
                /\ Cardinality(IdsOf(all)) = Len(all) )
              => Len(blocks) = Len(omni.streams)
\* a text built from three chunks, one a Presenter with a child, two sharing an id
C2_Witness ==
    /\ tpc = "built"
    /\ Len(omni.streams) = 3
    /\ Len(inserted) = 4
    /\ Len(blocks) = 2

\* C6: the ordered collection, and so the rendered text after its settings
\* block, lists the object blocks in strictly ascending order of their id,
\* whatever the insertion order, the offset table and the sequence indices.
C6_AscendingIds ==
    /\ \A i, j \in 1..Len(blocks) : i < j => blocks[i].value.id < blocks[j].value.id
    /\ tpc = "rendered" =>
         /\ Len(rendered) = 1 + Len(blocks)
         /\ \A i, j \in 2..Len(rendered) : i < j => rendered[i].id < rendered[j].id
\* objects inserted as 3, 1, 2 (with a non-zero offset table) are rendered 1, 2, 3
C6_Witness ==
    /\ tpc = "rendered"
    /\ inserted = <<3, 1, 2>>
    /\ omni.offsets # <<>> /\ omni.offsets[2] # 0
    /\ [i \in 1..3 |-> rendered[i + 1].id] = <<1, 2, 3>>

\* C7: the header lowers to one defineSettings block with exactly the two
\* assignments bufferSizeKB = buffer_size / 1024 (the quotient of Rust's
\* truncating division) and buffersNum = buffer_count, and that block is the
\* first one rendered, ahead of every object block.
IsQuotient1024(q, n) ==
    IF n >= 0 THEN 1024 * q <= n /\ n < 1024 * (q + 1)
    ELSE 1024 * (q - 1) < n /\ n <= 1024 * q
C7_SettingsFirst ==
    tpc \in {"lower", "insert", "built", "rendered", "panic"} =>
        /\ Len(settings) = 1
        /\ settings[1].block_type = "defineSettings"
        /\ Len(settings[1].statements) = 2
        /\ LET kb == settings[1].statements[1]
               num == settings[1].statements[2]
           IN /\ kb.kind = "Assignment" /\ kb.name = "bufferSizeKB"
              /\ kb.value.t = "Integer"
              /\ IsQuotient1024(kb.value.v, omni.header.buffer_size)
              /\ num.kind = "Assignment" /\ num.name = "buffersNum"
              /\ num.value.t = "Integer"
              /\ num.value.v = omni.header.buffer_count
        /\ tpc = "rendered" =>
              /\ rendered[1] = settings[1]
              /\ \A i \in 2..Len(rendered) : rendered[i] = blocks[i - 1].value
\* a text rendered with blocks after the settings block, for 10240 bytes
C7_Witness ==
    /\ tpc = "rendered"
    /\ Len(rendered) = 3
    /\ omni.header.buffer_size = 10240
    /\ rendered[1].statements[1].value.v = 10
    /\ rendered[1].statements[2].value.v = 4

\* C5: a lowered Video, Sound, Event, Bitmap or Object has a location,
\* direction, up, loopCount, duration or handlerClass assignment only when that
\* field is not (0,0,0), (0,0,1), (0,1,0), 1, 0 or "": an object with all six
\* defaults lowers to a block with none of them.
Suppressed(o, name) ==
    CASE name = "location" -> o.location = Vec3_ZERO
      [] name = "direction" -> o.direction = Vec3_Z
      [] name = "up" -> o.up = Vec3_Y
      [] name = "loopCount" -> o.loops = 1
      [] name = "duration" -> o.duration = 0
      [] name = "handlerClass" -> o.presenter = ""
      [] OTHER -> FALSE
C5_SuppressedDefaults ==
    (lw_out # <<>> /\ lw_in.tag = "MxOb" /\ lw_in.obj.type \in LeafTypes
     /\ ~lw_out[1].panic) =>
        /\ Len(lw_out[1].block) = 1
        /\ \A i \in 1..Len(lw_out[1].block[1].statements) :
              LET st == lw_out[1].block[1].statements[i]
              IN st.kind = "Assignment" /\ ~Suppressed(lw_in.obj, st.name)
C5_Witness ==
    /\ lw_out # <<>> /\ ~lw_out[1].panic
    /\ lw_in.tag = "MxOb" /\ lw_in.obj.type = "Bitmap"
    /\ lw_in.obj.location = Vec3_ZERO /\ lw_in.obj.direction = Vec3_Z
    /\ lw_in.obj.up = Vec3_Y /\ lw_in.obj.loops = 1 /\ lw_in.obj.duration = 0
    /\ lw_in.obj.presenter = ""
    /\ Len(lw_out[1].block) = 1
    /\ Len(lw_out[1].block[1].statements) = 1

(***************************************************************************)
(* Claims about RiffChunkHeader.                                           *)
(***************************************************************************)
\* size - raw as a number, for a size within one limb step of raw
U32_minus(a, b) ==
    IF a.hi = b.hi THEN a.lo - b.lo
    ELSE IF a.hi = b.hi + 1 THEN Limb + a.lo - b.lo
    ELSE IF a.hi + 1 = b.hi THEN a.lo - b.lo - Limb
    ELSE IF a.hi > b.hi THEN Limb * 2 ELSE -(Limb * 2)

\* C3 (as claimed): every length read is even, and for every raw u32 x,
\* 0xFFFFFFFF included, the size read is x when x is even and x + 1 when odd.
C3_EvenRoundUp ==
    hd_size # <<>> =>
        /\ ~hd_size[1].panic
        /\ hd_size[1].v.lo % 2 = 0
        /\ U32_minus(hd_size[1].v, hd_raw) = hd_raw.lo % 2

(***************************************************************************)
(* Claims about the preprocessor.                                          *)
(***************************************************************************)
\* text with every occurrence of name, taken left to right, replaced by value
RECURSIVE Substitute(_, _, _)
Substitute(text, name, value) ==
    IF text = <<>> THEN <<>>
    ELSE IF Len(text) >= Len(name) /\ SubSeq(text, 1, Len(name)) = name
         THEN value \o Substitute(SubSeq(text, Len(name) + 1, Len(text)), name, value)
         ELSE <<Head(text)>> \o Substitute(Tail(text), name, value)
StartsWith(text, prefix) ==
    Len(text) >= Len(prefix) /\ SubSeq(text, 1, Len(prefix)) = prefix
After(text, prefix) == SubSeq(text, Len(prefix) + 1, Len(text))
\* text that holds no comment, no directive and no carriage return
IsPlain(text) == \A i \in 1..Len(text) : text[i] \notin {"/", "#", "\r"}

\* C8 (as claimed): after the line `#define FOO "bar"` (or `#define FOO`, which
\* stores the empty replacement) the preprocessor emits nothing for the
\* directive line and replaces each later occurrence of FOO by the value.
C8_DefineReplacesEach ==
    \A d \in {<<DefineFooBar, ValueBar>>, <<DefineFoo, <<>> >>} :
        (pp_res # <<>> /\ StartsWith(chars, d[1]) /\ IsPlain(After(chars, d[1])))
            => pp_res[1] = Ok(Substitute(After(chars, d[1]), NameFOO, d[2]))

\* C9: when the input runs out the result is Ok with the expanded text if the
\* state is Expecting or SkipLine, and UnexpectedEndState naming the state in
\* each of the six other states; Ok is returned in no other way.
C9_EndState ==
    pp_res # <<>> =>
        /\ pp_res[1].kind = "Ok" =>
              pp_index = Len(chars) /\ state \in {"Expecting", "SkipLine"}
        /\ pp_index = Len(chars) =>
              IF state \in {"Expecting", "SkipLine"}
              THEN pp_res[1] = [kind |-> "Ok", text |-> rv]
              ELSE /\ pp_res[1] = [kind |-> "UnexpectedEndState", state |-> state]
                   /\ state \in {"Slash", "SkipComment", "EndComment", "Directive",
                                 "DirectiveParameter", "DirectiveString"}
\* C9 (witness): an input that ends inside a block comment, after text that
\* was copied to the output, has been refused with the state it ended in.
C9_Witness ==
    /\ pp_res = <<[kind |-> "UnexpectedEndState", state |-> "SkipComment"]>>
    /\ pp_index = Len(chars)
    /\ Len(rv) > 0

(***************************************************************************)
(* Claims about the chunk reader and Omni::parse.                          *)
(***************************************************************************)
\* position mod b for b > 0
U64_mod(p, b) == (((p.hi % b) * (Limb % b)) + p.lo) % b
Abs(b) == IF b < 0 THEN -b ELSE b
\* (position mod buf_size) + 8 > buf_size; with a negative buf_size this
\* holds whatever the remainder is
Straddles(p, b) == b < 0 \/ (b > 0 /\ U64_mod(p, b) + HeaderBytes > b)
\* the first multiple of buf_size after the position
NextMultiple(p, b) == U64_offset(p, Abs(b) - U64_mod(p, Abs(b)))

\* C4 (as claimed): in read_chunks, when the position before a chunk-header
\* read has (position mod buf_size) + 8 > buf_size, the reader moves to the
\* next multiple of buf_size and resumes the loop there; no chunk is parsed
\* from a header at such a position.
C4_SkipAtBufferEdge ==
    [][ (/\ rd_pc = "chunks"
         /\ Top.phase = "loop"
         /\ LoopCondition
         /\ Straddles(rd_pos, Top.buf_size))
        => (rd_pc' = "chunks" /\ rd_pos' = NextMultiple(rd_pos, Top.buf_size)) ]_vars

\* the contained-type tag of the wrapper in the stream
WrapperType == ReadTag(rd_stream, U32(8)).tag
\* C10 (as claimed): Omni::parse accepts a RIFF wrapper only when its
\* contained-type tag is "OMNI" or "MxSt"; a wrapper with any other tag gets
\* NotOmni.
C10_NotOmniForOtherTypes ==
    rd_res # <<>> =>
        /\ rd_res[1].kind = "Ok" => rd_res[1].riff_type \in {"OMNI", "MxSt"}
        /\ (/\ rd_res[1].kind \in {"Ok", "UnknownLayout", "NotOmni"}
            /\ WrapperType \notin {"OMNI", "MxSt"})
              => rd_res[1] = ParseResult("NotOmni", WrapperType, <<>>)


\* the kinds of the children of a decoded chunk, in order
TagsOf(sub) == [i \in 1..Len(sub) |-> sub[i].tag]
\* the root chunk has been decoded and is a RIFF wrapper: Omni::parse is at
\* its tests of the layout
AtLayoutTest == rd_pc = "ret" /\ Top.f = "parse" /\ rd_ret.ok /\ rd_ret.chunk.tag = "RIFF"
\* C11: Omni::parse returns Ok only for a wrapper whose decoded children are
\* exactly MxHd, MxOf, LIST in this order, and then returns them; for every
\* other count, kind or order of the children of a decoded wrapper (an extra
\* pad chunk included) it returns UnknownLayout.
C11_UnknownLayout ==
    [][ AtLayoutTest =>
          /\ rd_pc' = "done"
          /\ rd_res' = << IF TagsOf(rd_ret.chunk.sub) = <<"MxHd", "MxOf", "LIST">>
                          THEN ParseResult("Ok", rd_ret.chunk.rtype, rd_ret.chunk.sub)
                          ELSE ParseResult("UnknownLayout", "", <<>>) >> ]_vars
\* a wrapper with the three children and a pad chunk after them was refused
C11_Witness ==
    /\ rd_pc = "done"
    /\ rd_stream = Placed(RiffBytes("OMNI", MxHdBytes(DefaultBufSize) \o MxOfBytes
                                        \o ListBytes(ListTypeOther, <<>>)
                                        \o BytesChunk("pad ", U32(8))), U32(0))
    /\ rd_res = <<ParseResult("UnknownLayout", "", <<>>)>>


\* ---- streams in which the buffer-edge rule never applies: the buffer
\* size is the default wherever it is stored and the stream is shorter
NoEdge ==
    /\ U64_lt(StreamLen(rd_stream), U32(DefaultBufSize))
    /\ \A i \in 1..Len(rd_stream) :
           rd_stream[i].k = "hd" => rd_stream[i].hd.buffer_size = DefaultBufSize
\* the streams put the tag "JUNK", which is no chunk tag, where a sibling
\* chunk begins and nowhere else
HoldsUnknownTag ==
    \E i \in 1..Len(rd_stream) : rd_stream[i].k = "tag" /\ rd_stream[i].tag = "JUNK"
\* C12 (as claimed): a decode of a stream that holds a tag that is no chunk
\* tag where a chunk is expected ends in an error; no result is returned
\* that leaves the chunk out.
C12_UnknownTagIsError ==
    (rd_res # <<>> /\ NoEdge /\ HoldsUnknownTag) => rd_res[1].kind \in {"BinRW", "panic"}


\* the stream begins with the header of a RIFF wrapper and ends before the
\* end of the payload that header declares
TruncatedWrapper ==
    /\ Len(rd_stream) >= 2
    /\ rd_stream[1].k = "tag" /\ rd_stream[1].tag = "RIFF"
    /\ rd_stream[2].k = "u32"
    /\ U64_lt(StreamLen(rd_stream), U64_plus(rd_stream[2].num, HeaderBytes))
\* C13 (as claimed): when the input ends inside a chunk whose header was
\* read, before the payload the header declares is complete, the decode
\* returns an error; it never returns a result without the missing part.
C13_TruncatedIsError ==
    (rd_res # <<>> /\ TruncatedWrapper) => rd_res[1].kind # "Ok"


\* read_chunks is at the head of its loop
AtLoopHead == rd_pc = "chunks" /\ Top.phase = "loop"
\* fewer than 8 bytes of the budget remain
FewerThanHeader == U64_lt(Top.max_pos, U64_plus(rd_pos, HeaderBytes))
\* read_chunks returns Ok with the chunks read so far
ReturnsChunks(cs) == rd_pc' = "ret" /\ rd_ret'.ok /\ rd_ret'.chunks = cs
\* C14 (as claimed): at the head of its loop read_chunks returns normally
\* with the chunks read so far when fewer than 8 bytes of its budget remain,
\* and goes on to a chunk read (it does not return) when 8 or more remain.
C14_LoopBound ==
    [][ AtLoopHead =>
          IF FewerThanHeader THEN ReturnsChunks(Top.rv)
          ELSE ~ReturnsChunks(Top.rv) ]_vars


\* read_chunks has a chunk that was read without an error
ChunkParsed == rd_pc = "ret" /\ Top.f = "chunks" /\ rd_ret.ok
\* chunk_start + declared_length + 8
ChunkEnd == U64_plus(U64_add(Top.before, rd_ret.chunk.size), HeaderBytes)
\* read_chunks is about to return Ok(rv)
AtLoopExit ==
    rd_pc = "chunks" /\ (Top.phase = "exit" \/ (Top.phase = "loop" /\ ~LoopCondition))
\* C15 (as claimed): after every chunk read_chunks parses, the position is
\* chunk_start + declared_length + 8 when the next sibling is read, whether
\* the fields took fewer bytes than declared or more; and read_chunks
\* returns with the position at its start position plus its byte budget.
C15_ExactBoundary ==
    [][ /\ ChunkParsed => rd_pos' = ChunkEnd
        /\ AtLoopExit => rd_pos' = Top.max_pos ]_vars


\* the activations of read_chunks among the first k records of the stack
ChunksBelow(k) == {j \in 1..k : rd_stack[j].f = "chunks"}
Max(S) == CHOOSE x \in S : \A y \in S : y <= x
\* the headers among the chunks an activation has read
HdsOf(cs) == {i \in 1..Len(cs) : cs[i].tag = "MxHd"}
\* the buffer size the claim gives activation k of read_chunks: that of the
\* last header among the siblings read so far; with none, the size of the
\* sequence this one is nested in; the default outside every header's reach
RECURSIVE BufSizeInForce(_)
BufSizeInForce(k) ==
    IF HdsOf(rd_stack[k].rv) # {}
    THEN rd_stack[k].rv[Max(HdsOf(rd_stack[k].rv))].hd.buffer_size
    ELSE IF ChunksBelow(k - 1) = {} THEN DefaultBufSize
    ELSE BufSizeInForce(Max(ChunksBelow(k - 1)))
\* C16: within one decode the chunks read before the MxHd use the buffer
\* size 0x10000; every sibling read after the MxHd, and every chunk nested
\* below such a sibling, uses the buffer_size of the MxHd.
C16_BufferSizeInForce ==
    /\ \A k \in ChunksBelow(Len(rd_stack)) : rd_stack[k].buf_size = BufSizeInForce(k)
    /\ rd_pc \in {"chunk", "ob", "list"} =>
           rd_buf = IF ChunksBelow(Len(rd_stack)) = {} THEN DefaultBufSize
                    ELSE BufSizeInForce(Max(ChunksBelow(Len(rd_stack))))
\* a chunk two sequences below the wrapper's is read with the buffer size 32
\* of the MxHd that came before
C16_Witness ==
    /\ rd_pc = "chunk"
    /\ Cardinality(ChunksBelow(Len(rd_stack))) >= 3
    /\ rd_buf = 32
    /\ Top.buf_size = 32
    /\ HdsOf(rd_stack[Max(ChunksBelow(Len(rd_stack)))].rv) = {}
    /\ \A k \in ChunksBelow(Len(rd_stack)) : rd_stack[k].buf_size = 32


(***************************************************************************)
(* Claims about the kinds the lowering does not implement.                 *)
(***************************************************************************)
\* the chunk carries an object of kind Animation or World
IsTodoKind(chunk) ==
    chunk.tag \in {"MxOb", "MxSt"} /\ chunk.obj.type \in {"Animation", "World"}
\* ... itself, or as a child of the Presenter it carries
HoldsTodoKind(chunk) ==
    \/ IsTodoKind(chunk)
    \/ /\ chunk.tag \in {"MxOb", "MxSt"}
       /\ chunk.obj.type = "Presenter"
       /\ \E i \in 1..Len(chunk.obj.list) : IsTodoKind(chunk.obj.list[i])
\* C17: lowering an object of kind Animation or World, at top level or as a
\* child of a Presenter, aborts: to_block yields no block, no empty block
\* and no result without the object.
C17_TodoKindsAbort ==
    (lw_out # <<>> /\ HoldsTodoKind(lw_in)) => lw_out[1] = Panicked
\* a Presenter that lowers well by itself aborted on its Animation child
C17_Witness ==
    /\ lw_out = <<Panicked>>
    /\ lw_in.tag = "MxOb"
    /\ lw_in.obj.type = "Presenter"
    /\ ~LoopingPanics(lw_in.obj)
    /\ Len(lw_in.obj.list) = 1
    /\ lw_in.obj.list[1].obj.type = "Animation"


(***************************************************************************)
(* Claims about comments in the preprocessor.                              *)
(***************************************************************************)
\* the first index from i on where the two characters a, b stand, 0 if none
RECURSIVE FindPair(_, _, _, _)
FindPair(text, i, a, b) ==
    IF i + 1 > Len(text) THEN 0
    ELSE IF text[i] = a /\ text[i + 1] = b THEN i
    ELSE FindPair(text, i + 1, a, b)
\* the first index from i on where the character a stands, 0 if none
RECURSIVE FindChar(_, _, _)
FindChar(text, i, a) ==
    IF i > Len(text) THEN 0
    ELSE IF text[i] = a THEN i
    ELSE FindChar(text, i + 1, a)
\* the text without its comments: `//` up to the end of its line (the
\* newline stays), `/*` up to the next `*/`; a block comment that is never
\* closed leaves the mark "open"
RECURSIVE StripComments(_)
StripComments(text) ==
    IF text = <<>> THEN <<>>
    ELSE IF StartsWith(text, <<"/", "/">>)
    THEN LET n == FindChar(text, 3, "\n")
         IN IF n = 0 THEN <<>> ELSE StripComments(SubSeq(text, n, Len(text)))
    ELSE IF StartsWith(text, <<"/", "*">>)
    THEN LET n == FindPair(text, 3, "*", "/")
         IN IF n = 0 THEN <<"open">> ELSE StripComments(SubSeq(text, n + 2, Len(text)))
    ELSE <<Head(text)>> \o StripComments(Tail(text))
\* every block comment of the text is closed, and outside the comments the
\* text holds no slash, no directive and no carriage return
CommentsAndPlain(text) ==
    \A i \in 1..Len(StripComments(text)) :
        StripComments(text)[i] \notin {"open", "/", "#", "\r"}
\* the text holds a comment
HoldsComment(text) ==
    FindPair(text, 1, "/", "/") # 0 \/ FindPair(text, 1, "/", "*") # 0
\* C20 (as claimed): every line comment and every block comment is removed
\* from the output without an error, whatever its body holds, and the text
\* after it is processed as usual.
C20_CommentsStripped ==
    (pp_res # <<>> /\ CommentsAndPlain(chars)) => pp_res[1] = Ok(StripComments(chars))


(***************************************************************************)
(* Claims about Text::parser.                                              *)
(***************************************************************************)
SettingsAt(file) == {i \in 1..Len(file) : file[i].block_type = "defineSettings"}
IsOther(b) == b.block_type # "defineSettings"
\* C18: when the file holds exactly one defineSettings block, that block is
\* the document's settings block, wherever in the file it stands.
C18_SettingsExtracted ==
    (pr_pc = "done" /\ Cardinality(SettingsAt(pr_file)) = 1)
        => \A i \in SettingsAt(pr_file) : pr_settings = pr_file[i]
\* C18 witness: the settings block stood between two other blocks
C18_Witness ==
    /\ pr_pc = "done"
    /\ Len(pr_file) = 3
    /\ SettingsAt(pr_file) = {2}
    /\ pr_file[1] # pr_file[3]
    /\ pr_settings = pr_file[2]
\* C19 (as claimed): after Text::parser ran on a file with a settings block
\* and n other blocks, the document's collection holds all n blocks, and
\* iterating it yields them in the order of the file.
C19_FileOrder ==
    (pr_pc = "done" /\ Cardinality(SettingsAt(pr_file)) = 1)
        => BTreeMap_values(pr_map) = SelectSeq(pr_file, IsOther)


\* C27 (as claimed): the settings block of every document Text::parser
\* returns has type defineSettings, and the parser never aborts, also for a
\* file without a defineSettings block or without any block.
C27_SettingsTyped ==
    /\ pr_pc # "panic"
    /\ pr_pc = "done" => pr_settings.block_type = "defineSettings"


(***************************************************************************)
(* Claims about macros and error positions in the preprocessor.            *)
(***************************************************************************)
\* the defined names that stand in the input at the current index, the one
\* that ends with the input included
OccursAt ==
    { k \in DOMAIN definitions :
        pp_index + Len(k) <= Len(chars) /\ SubSeq(chars, pp_index + 1, pp_index + Len(k)) = k }
\* C21 (as claimed): outside directives and comments, an occurrence of a
\* defined name is replaced by its stored text wherever it lies, the
\* occurrence that ends exactly at the end of the input included.
C21_EveryOccurrence ==
    [][ (Running /\ state = "Expecting" /\ CurChar \notin {"/", "#", "\n", "\r"}
            /\ OccursAt # {})
          => \E k \in OccursAt :
                 rv' = rv \o definitions[k] /\ pp_index' = pp_index + Len(k) ]_vars

\* the line and the column of the character at index i (both from 0)
LineOf(text, i) == Cardinality({j \in 1..i : text[j] = "\n"})
ColumnOf(text, i) ==
    LET nl == {j \in 1..i : text[j] = "\n"}
    IN IF nl = {} THEN i ELSE i - (CHOOSE j \in nl : \A l \in nl : l <= j)
\* C26 (as claimed): an UnexpectedToken error carries the line and the column
\* at which the offending character stands in the input.
C26_ErrorPosition ==
    (pp_res # <<>> /\ pp_res[1].kind = "UnexpectedToken")
        => /\ pp_res[1].tok = CurChar
           /\ pp_res[1].line = LineOf(chars, pp_index)
           /\ pp_res[1].column = ColumnOf(chars, pp_index)

\* the input is pre, the line `#define FOO "bar"`, then post
OnceDefinedAt(i) ==
    /\ IsPlain(SubSeq(chars, 1, i))
    /\ StartsWith(SubSeq(chars, i + 1, Len(chars)), DefineFooBar)
    /\ IsPlain(SubSeq(chars, i + Len(DefineFooBar) + 1, Len(chars)))
\* the input is pre, `#define FOO "bar"`, mid, `#define FOO 1`, then post
TwiceDefinedAt(i, j) ==
    /\ IsPlain(SubSeq(chars, 1, i))
    /\ StartsWith(SubSeq(chars, i + 1, Len(chars)), DefineFooBar)
    /\ i + Len(DefineFooBar) <= j
    /\ IsPlain(SubSeq(chars, i + Len(DefineFooBar) + 1, j))
    /\ StartsWith(SubSeq(chars, j + 1, Len(chars)), DefineFooOne)
    /\ IsPlain(SubSeq(chars, j + Len(DefineFooOne) + 1, Len(chars)))
\* C29 (as claimed): a definition takes effect for the input that follows its
\* line only: the text before it is emitted unchanged, the text between two
\* definitions of a name uses the first value, the text after the second
\* uses the second value.
C29_DefineInOrder ==
    pp_res # <<>> =>
        \A i \in 0..Len(chars) :
            /\ OnceDefinedAt(i) =>
                  pp_res[1] = Ok(SubSeq(chars, 1, i)
                      \o Substitute(SubSeq(chars, i + Len(DefineFooBar) + 1, Len(chars)),
                                    NameFOO, ValueBar))
            /\ \A j \in i..Len(chars) :
                  TwiceDefinedAt(i, j) =>
                      pp_res[1] = Ok(SubSeq(chars, 1, i)
                          \o Substitute(SubSeq(chars, i + Len(DefineFooBar) + 1, j),
                                        NameFOO, ValueBar)
                          \o Substitute(SubSeq(chars, j + Len(DefineFooOne) + 1, Len(chars)),
                                        NameFOO, <<"1">>))


(***************************************************************************)
(* Claims about the progress of read_chunks and the nested headers.        *)
(***************************************************************************)
\* read_chunks goes back to the head of its loop
BackAtLoopHead == rd_pc' = "chunks" /\ rd_stack'[Len(rd_stack')].phase = "loop"
\* C28 (as claimed): whatever buffer size is in force, a pass through the
\* loop of read_chunks never aborts and never moves the position backwards,
\* and when it comes back to the head of the loop the position has advanced.
C28_LoopAdvances ==
    [][ /\ (AtLoopHead /\ LoopCondition)
            => /\ rd_res' = <<>>
               /\ ~U64_lt(rd_pos', rd_pos)
               /\ BackAtLoopHead => U64_lt(rd_pos, rd_pos')
        /\ (rd_pc = "ret" /\ Top.f = "chunks" /\ BackAtLoopHead)
            => U64_lt(Top.before, rd_pos') ]_vars


\* a reader is about to read the length of a header embedded in an object:
\* the MxOb or the LIST of an MxSt, the LIST of a Presenter or a World (the
\* magic of the header is the four bytes before the position)
EmbeddedHeaderRead ==
    \/ rd_pc = "ob" /\ Top.f = "St"
    \/ rd_pc = "list" /\ Top.f \in {"St", "Ob"}
\* C22 (as claimed): the buffer-edge rule is applied before every chunk-header
\* read at every depth, so no embedded MxOb or LIST header is read from a
\* position with (position mod buf_size) + 8 > buf_size.
C22_SkipAtEveryHeader ==
    EmbeddedHeaderRead => ~Straddles(U64_offset(rd_pos, -4), rd_buf)


(***************************************************************************)
(* Claims about the children of a Presenter.                               *)
(***************************************************************************)
\* the names of the objects of the chunks, in list order
RECURSIVE ChildNames(_)
ChildNames(chunks) ==
    IF chunks = <<>> THEN <<>> ELSE <<Head(chunks).obj.name>> \o ChildNames(Tail(chunks))
\* the names of the objects below a list, every object after its own
\* children; a pad chunk has no object
RECURSIVE DescendantNames(_)
DescendantNames(chunks) ==
    IF chunks = <<>> THEN <<>>
    ELSE (IF Head(chunks).tag = "pad " THEN <<>>
          ELSE DescendantNames(Head(chunks).obj.list) \o <<Head(chunks).obj.name>>)
         \o DescendantNames(Tail(chunks))
DeclarationsOf(stmts) == SelectSeq(stmts, LAMBDA st : st.kind = "Declaration")
\* to_block ran on a Presenter whose own looping flags are valid and which
\* holds no object of a kind that is not lowered yet
PresenterLowered ==
    /\ lw_out # <<>>
    /\ lw_in.tag = "MxOb" /\ lw_in.obj.type = "Presenter"
    /\ ~LoopingPanics(lw_in.obj)
    /\ ~HoldsTodoKind(lw_in)
\* C23 (as claimed): whatever chunk kinds the list of a Presenter holds, its
\* parallelAction block holds one Declaration per child, named after the
\* child and in list order, and blocks_before holds the block of every
\* descendant in that order, none of them marked Weave.
C23_DeclarationPerChild ==
    PresenterLowered =>
        /\ ~lw_out[1].panic
        /\ lw_out[1].block[1].block_type = "parallelAction"
        /\ DeclarationsOf(lw_out[1].block[1].statements)
               = [i \in 1..Len(lw_in.obj.list) |->
                      Declaration(ChildNames(lw_in.obj.list)[i])]
        /\ [i \in 1..Len(lw_out[1].before) |-> lw_out[1].before[i].name]
               = DescendantNames(lw_in.obj.list)
        /\ \A i \in 1..Len(lw_out[1].before) : ~lw_out[1].before[i].is_weave


(***************************************************************************)
(* Claims about the order and the collisions of Text::from_omni.           *)
(***************************************************************************)
\* the place in the rendered text of the block with the id, 0 if there is none
PlaceOf(id) ==
    IF \E i \in 2..Len(rendered) : rendered[i].id = id
    THEN CHOOSE i \in 2..Len(rendered) : rendered[i].id = id
    ELSE 0
\* no two blocks lowered from the container share an id
DistinctIds ==
    LET all == LoweredUpTo(Len(omni.streams)) IN Cardinality(IdsOf(all)) = Len(all)
\* C24 (as claimed): in the rendered text the block of every child of a
\* Presenter stands before the block of its parent, whatever their ids.
C24_ChildrenFirst ==
    (tpc = "rendered" /\ DistinctIds) =>
        \A k \in 1..Len(omni.streams) :
            (omni.streams[k].tag = "MxOb" /\ omni.streams[k].obj.type = "Presenter") =>
                \A m \in 1..Len(omni.streams[k].obj.list) :
                    /\ PlaceOf(omni.streams[k].obj.list[m].obj.id) # 0
                    /\ PlaceOf(omni.streams[k].obj.list[m].obj.id)
                           < PlaceOf(omni.streams[k].obj.id)

\* the entries of the collection whose block has the id
WithId(m, id) == {i \in 1..Len(m) : m[i].value.id = id}
\* C25: the collection never holds two blocks with one id, and an insert of
\* a block whose id is present raises no error and leaves one block for
\* that id, the one just inserted; the blocks of the other ids stay.
C25_LastInsertWins ==
    /\ [](\A i, j \in 1..Len(blocks) : i # j => blocks[i].value.id # blocks[j].value.id)
    /\ [][ (tpc = "insert" /\ pending # <<>>)
             => /\ tpc' # "panic"
                /\ \A i \in WithId(blocks', Head(pending).value.id) :
                       blocks'[i].value = Head(pending).value
                /\ Cardinality(WithId(blocks', Head(pending).value.id)) = 1
                /\ \A i \in 1..Len(blocks) :
                       blocks[i].value.id # Head(pending).value.id
                           => \E j \in 1..Len(blocks') : blocks'[j].value = blocks[i].value
       ]_vars
\* C25 witness: a Sound with id 2 was inserted, then an Object with id 2,
\* and the collection holds the Object's block alone
C25_Witness ==
    /\ tpc = "built"
    /\ inserted = <<2, 2>>
    /\ omni.streams[1].obj.type = "Sound"
    /\ Len(blocks) = 1
    /\ blocks[1].value.block_type = "defineObject"


(***************************************************************************)
(* Claims about the text of a Definition.                                  *)
(***************************************************************************)
\* C30 (as claimed): a Definition written by Display and read back as a
\* Value is the same Definition, variant and value, with no text left over.
C30_RoundTrip ==
    vl_pc = "done" =>
        /\ vl_parsed[1].ok
        /\ RValue_eq(vl_parsed[1].value, vl_def)
        /\ vl_parsed[1].rest = <<>>

=============================================================================
